---- MODULE Spec2Model ----
(***************************************************************************)
(* A model of the aiDAPTIV+ KvCache build path of the extension: the file  *)
(* classifier and context aggregator of FolderAllContextProvider, the chat *)
(* dispatcher streamBuildKvCacheThunk, the settings panel that starts the  *)
(* build, and the configuration copy of activateExtension.                 *)
(*                                                                         *)
(* Strings whose characters matter (URIs, file names, extensions) are      *)
(* sequences of one-character strings.  A file's content is a sequence of  *)
(* characters, each character given by its UTF-8 width in bytes, so that   *)
(* the byte size (new Blob([content]).size) and the character count        *)
(* (content.length, content.substring) of a content are different things.  *)
(***************************************************************************)
EXTENDS Integers, Sequences, FiniteSets, TLC

VARIABLES
    fltInput,        \* filterFiles: the fileUris argument
    fltOutput,       \* filterFiles: the value the call returned
    fltCalled,       \* filterFiles: TRUE once the call has returned
    aggPc,           \* getContextItems: "start" | "walking" | "loop" | "done"
    query,           \* getContextItems: selectedFolderUri
    walkOutcome,     \* walkDir: "none" | "returned" | "threw"
    fileUris,        \* getContextItems: const fileUris
    filteredFiles,   \* getContextItems: const filteredFiles
    idx,             \* getContextItems: position of the for..of loop (1-based)
    contextItems,    \* getContextItems: const contextItems
    totalBytes,      \* getContextItems: let totalBytes
    processedFiles,  \* getContextItems: let processedFiles
    reads,           \* the calls of extras.ide.readFile made so far, with their outcomes
    aggResult,       \* the array getContextItems resolved with
    aggThrown,       \* TRUE when getContextItems rejected
    buildPc,         \* streamBuildKvCacheThunk: "idle" | "resolving" | "compiling" |
                     \*   "streaming" | "returned" | "threw" | "done"
    history,         \* state.session.history
    historyAtStart,  \* state.session.history when the thunk was dispatched
    selectedChatModel,    \* TRUE when selectSelectedChatModel(state) is defined
    inputIndex,      \* const inputIndex
    content,         \* const content, of resolveEditorContent
    selectedContextItems, \* const selectedContextItems, of resolveEditorContent
    cmHistory,       \* the history argument constructMessages was called with
    messages,        \* const messages, of constructMessages
    isStreaming,     \* state.session.isStreaming
    inlineErrorMessage,   \* state.session.inlineErrorMessage
    isPruned,        \* state.session.isPruned
    contextPercentage,    \* state.session.contextPercentage
    precompiledRes,  \* const precompiledRes
    genArgs,         \* the argument llmStreamChat was called with
    streamed,        \* the units dispatched with streamUpdate
    streamAborted,   \* TRUE once abortStream was dispatched
    promptLog,       \* the pairs dispatched with addPromptCompletionPair
    thrown,          \* the error the callback of streamThunkWrapper threw
    showDialog,      \* state.ui.showDialog
    thunkResult,     \* the action the dispatch of the thunk resolved with
    trace,           \* the actions the callback dispatched and the calls it made, in order
    yielded,         \* the units gen.next() resolved with
    next,            \* let next: what the last gen.next() resolved with
    inFlight,        \* the asynchronous operations started and not yet settled
    postOutcome,     \* ideMessenger.post("devdata/log"): "none" | "posted" | "threw"
    panelPc,         \* handleEnableClick: "idle" | "getWorkspaceDirs" | "listDir" |
                     \*   "dispatched" | "delay" | "done"
    isBuilding,      \* EnableAiDaptivSetting: const [isBuilding, setIsBuilding]
    buildError,      \* EnableAiDaptivSetting: const [buildError, setBuildError]
    buildCancelledRef,    \* EnableAiDaptivSetting: buildCancelledRef.current
    workspaceRoot,   \* handleEnableClick: const workspaceRoot
    folderName,      \* handleEnableClick: const folderName
    firstFolder,     \* handleEnableClick: const firstFolder
    disableIndexing, \* config.disableIndexing
    sectionIsBuilding,    \* AiDaptivSettingsSection: const [isBuilding, setIsBuilding]
    progress,        \* AiDaptivSettingsSection: const [progress, setProgress]
    status,          \* AiDaptivSettingsSection: const [status, setStatus]
    statusMessage,   \* AiDaptivSettingsSection: const [statusMessage, setStatusMessage]
    dirItems,        \* handleEnableClick: const items, of ide.listDir
    secondPc,        \* a second handleEnableClick, started while the first has not
                     \*   returned, followed up to its first await:
                     \*   "idle" | "getWorkspaceDirs" | "done"
    actPc,           \* activateExtension: "inactive" | "decided" | "configDone" | "active"
    sourceConfig,    \* the file at sourceConfigPath (local-agent-config.yaml)
    targetConfig,    \* the file at targetConfigPath (config.yaml)
    targetAtStart,   \* the file at targetConfigPath when the activation began
    continueDir,     \* TRUE when the directory continueGlobalPath exists
    shouldCopy,      \* activateExtension: let shouldCopy
    copyCalled,      \* TRUE once this activation has called fs.copyFileSync
    caught,          \* the error caught at catch (error) of the config block
    installedNotice, \* TRUE once this activation has shown the "installed" message
    hasBeenInstalled,     \* context.globalState "hasBeenInstalled"
    activations      \* the activations that have constructed VsCodeExtension

fltVars == <<fltInput, fltOutput, fltCalled>>
aggVars == <<aggPc, query, walkOutcome, fileUris, filteredFiles, idx, contextItems, totalBytes,
             processedFiles, reads, aggResult, aggThrown>>
buildVars == <<buildPc, history, historyAtStart, selectedChatModel, inputIndex,
               content, selectedContextItems, cmHistory, messages, isStreaming,
               inlineErrorMessage, isPruned, contextPercentage, precompiledRes,
               genArgs, streamed, streamAborted, promptLog, thrown, showDialog,
               thunkResult, trace, yielded, next, inFlight, postOutcome>>
panelVars == <<panelPc, isBuilding, buildError, buildCancelledRef, workspaceRoot,
               folderName, firstFolder, disableIndexing, sectionIsBuilding, progress,
               status, statusMessage, dirItems, secondPc>>
actVars == <<actPc, sourceConfig, targetConfig, targetAtStart, continueDir, shouldCopy,
             copyCalled, caught, installedNotice, hasBeenInstalled, activations>>
vars == <<fltVars, aggVars, buildVars, panelVars, actVars>>

(***************************************************************************)
(* Bounds of the model.                                                    *)
(***************************************************************************)
\* The three caps of the provider are 50 files, 100000 bytes and 2000000
\* bytes in the source.  The model runs them scaled down, keeping their
\* order: per-file cap < total cap < file cap * per-file cap.
ScaleFiles == 2
ScaleBytesPerFile == 2
ScaleTotalBytes == 3
\* Longest file content, in characters (more than the per-file cap).
MaxLen == 3
\* Number of entries of WalkPool the directory walk may return.
MaxWalk == 4
\* Longest argument of filterFiles in the classifier's own specification.
MaxPaths == 2
\* Longest session history when the build thunk is dispatched.
MaxPrior == 2
\* Most units the response generator yields before it returns.
MaxUnits == 2
\* Most entries ide.listDir resolves with.
MaxEntries == 2
\* The activations of the extension that are followed.
MaxActivations == 2

(***************************************************************************)
(* JavaScript string operations, on sequences of characters.               *)
(***************************************************************************)
SetMax(S) == CHOOSE x \in S : \A y \in S : y <= x

UpperToLower ==
    ("A" :> "a") @@
    ("B" :> "b") @@
    ("C" :> "c") @@
    ("D" :> "d") @@
    ("E" :> "e") @@
    ("F" :> "f") @@
    ("G" :> "g") @@
    ("H" :> "h") @@
    ("I" :> "i") @@
    ("J" :> "j") @@
    ("K" :> "k") @@
    ("L" :> "l") @@
    ("M" :> "m") @@
    ("N" :> "n") @@
    ("O" :> "o") @@
    ("P" :> "p") @@
    ("Q" :> "q") @@
    ("R" :> "r") @@
    ("S" :> "s") @@
    ("T" :> "t") @@
    ("U" :> "u") @@
    ("V" :> "v") @@
    ("W" :> "w") @@
    ("X" :> "x") @@
    ("Y" :> "y") @@
    ("Z" :> "z")

\* String.prototype.toLowerCase
toLowerCase(s) == [i \in 1..Len(s) |-> IF s[i] \in DOMAIN UpperToLower
                                        THEN UpperToLower[s[i]] ELSE s[i]]

\* String.prototype.lastIndexOf(ch): 0-based, -1 when absent
lastIndexOf(s, ch) ==
    LET I == {i \in 1..Len(s) : s[i] = ch}
    IN  IF I = {} THEN -1 ELSE SetMax(I) - 1

\* String.prototype.substring(from, to): 0-based, arguments clamped to [0, length]
\* and swapped when from > to
substring(s, from, to) ==
    LET clamp(n) == IF n < 0 THEN 0 ELSE IF n > Len(s) THEN Len(s) ELSE n
        a == clamp(from)
        b == clamp(to)
        lo == IF a <= b THEN a ELSE b
        hi == IF a <= b THEN b ELSE a
    IN  SubSeq(s, lo + 1, hi)

\* String.prototype.substring(from)
substringFrom(s, from) == substring(s, from, Len(s))

startsWith(s, p) == Len(p) <= Len(s) /\ SubSeq(s, 1, Len(p)) = p

endsWith(s, p) == Len(p) <= Len(s) /\ SubSeq(s, Len(s) - Len(p) + 1, Len(s)) = p

\* String.prototype.split(sep) for a one-character separator
RECURSIVE split(_, _)
split(s, sep) ==
    LET I == {i \in 1..Len(s) : s[i] = sep}
    IN  IF I = {} THEN <<s>>
        ELSE LET k == SetMax(I)
             IN  Append(split(SubSeq(s, 1, k - 1), sep), SubSeq(s, k + 1, Len(s)))

\* getUriPathBasename of core/util/uri: the last segment of the path
getUriPathBasename(uri) ==
    LET parts == split(uri, "/") IN parts[Len(parts)]

\* Math.round(n / d) for n >= 0, d > 0
MathRoundDiv(n, d) == (2 * n + d) \div (2 * d)

KB == 1024

(***************************************************************************)
(* FolderAllContextProvider: configuration                                 *)
(***************************************************************************)
MAX_FILES == ScaleFiles
MAX_BYTES_PER_FILE == ScaleBytesPerFile
MAX_TOTAL_BYTES == ScaleTotalBytes

BINARY_EXTENSIONS ==
    { <<".", "p", "n", "g">>,
      <<".", "j", "p", "g">>,
      <<".", "j", "p", "e", "g">>,
      <<".", "g", "i", "f">>,
      <<".", "b", "m", "p">>,
      <<".", "i", "c", "o">>,
      <<".", "s", "v", "g">>,
      <<".", "m", "p", "4">>,
      <<".", "a", "v", "i">>,
      <<".", "m", "o", "v">>,
      <<".", "w", "m", "v">>,
      <<".", "f", "l", "v">>,
      <<".", "w", "e", "b", "m">>,
      <<".", "m", "p", "3">>,
      <<".", "w", "a", "v">>,
      <<".", "f", "l", "a", "c">>,
      <<".", "a", "a", "c">>,
      <<".", "o", "g", "g">>,
      <<".", "z", "i", "p">>,
      <<".", "r", "a", "r">>,
      <<".", "7", "z">>,
      <<".", "t", "a", "r">>,
      <<".", "g", "z">>,
      <<".", "e", "x", "e">>,
      <<".", "d", "l", "l">>,
      <<".", "s", "o">>,
      <<".", "d", "y", "l", "i", "b">>,
      <<".", "p", "d", "f">>,
      <<".", "d", "o", "c">>,
      <<".", "d", "o", "c", "x">>,
      <<".", "x", "l", "s">>,
      <<".", "x", "l", "s", "x">>,
      <<".", "p", "p", "t">>,
      <<".", "p", "p", "t", "x">>,
      <<".", "d", "b">>,
      <<".", "s", "q", "l", "i", "t", "e">>,
      <<".", "s", "q", "l", "i", "t", "e", "3">>,
      <<".", "b", "i", "n">>,
      <<".", "d", "a", "t">>,
      <<".", "l", "o", "g">> }

IGNORE_DIRS ==
    { <<"n", "o", "d", "e", "_", "m", "o", "d", "u", "l", "e", "s">>,
      <<".", "g", "i", "t">>,
      <<".", "s", "v", "n">>,
      <<".", "h", "g">>,
      <<"d", "i", "s", "t">>,
      <<"b", "u", "i", "l", "d">>,
      <<"o", "u", "t">>,
      <<"t", "a", "r", "g", "e", "t">>,
      <<".", "v", "s", "c", "o", "d", "e">>,
      <<".", "i", "d", "e", "a">>,
      <<".", "v", "s">>,
      <<"c", "o", "v", "e", "r", "a", "g", "e">>,
      <<".", "n", "y", "c", "_", "o", "u", "t", "p", "u", "t">>,
      <<".", "n", "e", "x", "t">>,
      <<".", "n", "u", "x", "t">>,
      <<".", "c", "a", "c", "h", "e">> }


(***************************************************************************)
(* FolderAllContextProvider.filterFiles                                    *)
(***************************************************************************)
\* for (const part of pathParts) if (IGNORE_DIRS.has(part)) return false
InIgnoredDir(uri) ==
    LET pathParts == split(uri, "/")
    IN  \E i \in 1..Len(pathParts) : pathParts[i] \in IGNORE_DIRS

\* Variant: the extension is compared as written, without toLowerCase.
extensionOf_CaseSensitive(fileName) ==
    substringFrom(fileName, lastIndexOf(fileName, "."))

\* fileName.substring(fileName.lastIndexOf('.')).toLowerCase()
extensionOf(fileName) ==
    toLowerCase(substringFrom(fileName, lastIndexOf(fileName, ".")))

HasBinaryExtension(fileName) == extensionOf(fileName) \in BINARY_EXTENSIONS

IsHiddenNonDoc(fileName) ==
    /\ startsWith(fileName, <<".">>)
    /\ ~endsWith(fileName, <<".", "m", "d">>)
    /\ ~endsWith(fileName, <<".", "t", "x", "t">>)

\* The callback handed to fileUris.filter
filterCallback(uri) ==
    LET fileName == getUriPathBasename(uri)
    IN  IF InIgnoredDir(uri) THEN FALSE
        ELSE IF HasBinaryExtension(fileName) THEN FALSE
        ELSE IF IsHiddenNonDoc(fileName) THEN FALSE
        ELSE TRUE

filterFiles(uris) == SelectSeq(uris, filterCallback)

\* The URIs the classifier is exercised on.
FilterUris ==
    { <<"w", "/", "a", ".", "t", "s">>,
      <<"w", "/", "b", ".", "m", "d">>,
      <<"w", "/", "n", "o", "d", "e", "_", "m", "o", "d", "u", "l", "e", "s", "/", "a", ".", "t", "s">>,
      <<"w", "/", "B", "u", "i", "l", "d", "/", "a", ".", "t", "s">>,
      <<"w", "/", "a", ".", "P", "N", "G">>,
      <<"w", "/", "a", ".", "t", "a", "r", ".", "g", "z">>,
      <<"w", "/", "a", ".", "p", "n", "g", ".", "t", "x", "t">>,
      <<"w", "/", ".", "e", "n", "v">>,
      <<"w", "/", ".", "n", "o", "t", "e", "s", ".", "m", "d">>,
      <<"w", "/", ".", "x", ".", "T", "X", "T">>,
      <<"w", "/", "b", "u", "i", "l", "d">>,
      <<"w", "/", "l", "o", "g">>,
      <<"w", "/", ".", "l", "o", "g">> }

\* The files of the selected folder, in the walk's enumeration order.
WalkPool ==
    << <<"w", "/", "f", "1", ".", "t", "s">>,
       <<"w", "/", "f", "2", ".", "m", "d">>,
       <<"w", "/", "i", "m", "g", ".", "p", "n", "g">>,
       <<"w", "/", "f", "3", ".", "t", "x", "t">>,
       <<"w", "/", "f", "4", ".", "j", "s">>,
       <<"w", "/", "f", "5", ".", "p", "y">> >>

(***************************************************************************)
(* The classifier on its own: filterFiles applied to a list of URIs.       *)
(***************************************************************************)
RECURSIVE SeqsUpTo(_, _)
SeqsUpTo(S, n) ==
    IF n = 0 THEN {<<>>}
    ELSE LET shorter == SeqsUpTo(S, n - 1)
         IN  shorter \cup {Append(s, x) : s \in {t \in shorter : Len(t) = n - 1}, x \in S}

FilterInputs == SeqsUpTo(FilterUris, MaxPaths)

CallFilterFiles ==
    /\ ~fltCalled
    /\ fltOutput' = filterFiles(fltInput)
    /\ fltCalled' = TRUE
    /\ UNCHANGED fltInput
    /\ UNCHANGED <<aggVars, buildVars, panelVars, actVars>>

(***************************************************************************)
(* FolderAllContextProvider.getContextItems                                *)
(***************************************************************************)
\* UTF-8 widths of the characters a file content is made of.
Widths == {1, 3}

Contents == UNION {[1..n -> Widths] : n \in 0..MaxLen}

\* new Blob([content]).size
RECURSIVE blobSize(_)
blobSize(fileContent) ==
    IF fileContent = <<>> THEN 0
    ELSE fileContent[1] + blobSize(Tail(fileContent))

\* "\n\n[Content truncated due to size limit]".length
NoticeLength == 39

\* Messages of the errors readFile and walkDir reject with.
ReadErrors == {"ENOENT", "EACCES"}
WalkErrors == {"EIO"}

\* A ContextItem.  name is the item's name; uri, body, notice, msg, files
\* and kb are what its description and content are built from.
Item(kind, name, uri, body, notice, msg, files, kb) ==
    [kind |-> kind, name |-> name, uri |-> uri, body |-> body,
     notice |-> notice, msg |-> msg, files |-> files, kb |-> kb]

NoFilesItem == Item("noFiles", <<"No Files Found">>, <<>>, <<>>, FALSE, "", 0, 0)

FilesLimitItem ==
    Item("filesLimit", <<"Files Limit Reached">>, <<>>, <<>>, FALSE, "", MAX_FILES, 0)

SizeLimitItem ==
    Item("sizeLimit", <<"Size Limit Reached">>, <<>>, <<>>, FALSE, "", 0,
         MathRoundDiv(MAX_TOTAL_BYTES, KB))

TruncatedItem(uri, fileContent) ==
    Item("truncated", getUriPathBasename(uri), uri,
         substring(fileContent, 0, MAX_BYTES_PER_FILE), TRUE, "", 0,
         MathRoundDiv(blobSize(fileContent), KB))

FileItem(uri, fileContent) ==
    Item("file", getUriPathBasename(uri), uri, fileContent, FALSE, "", 0, 0)

ErrorItem(uri, msg) ==
    Item("error", getUriPathBasename(uri), uri, <<>>, FALSE, msg, 0, 0)

SummaryItem(processed, total) ==
    Item("summary", <<"Folder Summary">>, getUriPathBasename(query), <<>>, FALSE, "", processed,
         MathRoundDiv(total, KB))

TopErrorItem(msg) == Item("topError", <<"Error">>, <<>>, <<>>, FALSE, msg, 0, 0)

\* item.content.length of a file item
contentLength(item) == Len(item.body) + (IF item.notice THEN NoticeLength ELSE 0)

\* UTF-8 size of item.content of a file item (the notice is ASCII)
contentBytes(item) == blobSize(item.body) + (IF item.notice THEN NoticeLength ELSE 0)

\* The entries of WalkPool a walk returns: those whose position is in S.
RECURSIVE PickFiles(_, _)
PickFiles(n, S) ==
    IF n = 0 THEN <<>>
    ELSE IF n \in S THEN Append(PickFiles(n - 1, S), WalkPool[n])
    ELSE PickFiles(n - 1, S)

WalkResults == {PickFiles(MaxWalk, S) : S \in SUBSET (1..MaxWalk)}

Queries == {<<>>, <<"w">>}

\* The locals of the loop.
Locals(items, processed, total) ==
    [items |-> items, processed |-> processed, total |-> total]

\* Variant: the file limit is tested with > instead of >=.
filesLimitReached_OffByOne(processed) == processed > MAX_FILES

\* if (processedFiles >= MAX_FILES)
filesLimitReached(processed) == processed >= MAX_FILES

\* if (contentBytes > MAX_BYTES_PER_FILE)
overPerFileCap(bytes) == bytes > MAX_BYTES_PER_FILE

\* Variant: the total cap is tested before the file's bytes are added.
overTotalCap_BeforeAdding(total, bytes) == total > MAX_TOTAL_BYTES

\* if (totalBytes + contentBytes > MAX_TOTAL_BYTES)
overTotalCap(total, bytes) == total + bytes > MAX_TOTAL_BYTES

pushFilesLimit(st) ==
    Locals(Append(st.items, FilesLimitItem), st.processed, st.total)

\* Variant: a truncated file's bytes are added to the running total.
pushTruncated_AddsBytes(st, uri, fileContent) ==
    Locals(Append(st.items, TruncatedItem(uri, fileContent)), st.processed + 1,
           st.total + blobSize(fileContent))

\* the branch of a content over the per-file cap
pushTruncated(st, uri, fileContent) ==
    Locals(Append(st.items, TruncatedItem(uri, fileContent)), st.processed + 1, st.total)

pushSizeLimit(st) ==
    Locals(Append(st.items, SizeLimitItem), st.processed, st.total)

pushFile(st, uri, fileContent) ==
    Locals(Append(st.items, FileItem(uri, fileContent)), st.processed + 1,
           st.total + blobSize(fileContent))

\* Variant: a failed read is counted as a processed file.
pushReadError_Counted(st, uri, msg) ==
    Locals(Append(st.items, ErrorItem(uri, msg)), st.processed + 1, st.total)

\* the catch clause of the loop body
pushReadError(st, uri, msg) ==
    Locals(Append(st.items, ErrorItem(uri, msg)), st.processed, st.total)

\* Variant: the summary is pushed after the items.
withSummary_Last(st) ==
    IF Len(st.items) > 0
    THEN st.items \o <<SummaryItem(st.processed, st.total)>>
    ELSE st.items

\* if (contextItems.length > 0) contextItems.unshift(summary)
withSummary(st) ==
    IF Len(st.items) > 0
    THEN <<SummaryItem(st.processed, st.total)>> \o st.items
    ELSE st.items

\* Variant: an empty filteredFiles returns an empty array.
noFilesResult_Empty == <<>>

\* return for an empty filteredFiles
noFilesResult == <<NoFilesItem>>

\* Variant: the outer catch rethrows.
topLevelCatch_Rethrow(msg) == [thrown |-> TRUE, result |-> <<>>]

\* the catch clause around the whole body: [thrown, result]
topLevelCatch(msg) == [thrown |-> FALSE, result |-> <<TopErrorItem(msg)>>]

Here == Locals(contextItems, processedFiles, totalBytes)

\* The loop goes on to the next file, or ends after the last one.
NextFile(st) ==
    /\ processedFiles' = st.processed
    /\ totalBytes' = st.total
    /\ idx' = idx + 1
    /\ IF idx < Len(filteredFiles)
       THEN /\ aggPc' = "loop"
            /\ contextItems' = st.items
            /\ aggResult' = aggResult
       ELSE /\ aggPc' = "done"
            /\ contextItems' = withSummary(st)
            /\ aggResult' = withSummary(st)

\* break, then the summary and the return
BreakLoop(st) ==
    /\ processedFiles' = st.processed
    /\ totalBytes' = st.total
    /\ idx' = idx
    /\ aggPc' = "done"
    /\ contextItems' = withSummary(st)
    /\ aggResult' = withSummary(st)

AggInit ==
    /\ aggPc = "start"
    /\ query \in Queries
    /\ walkOutcome = "none"
    /\ fileUris = <<>>
    /\ filteredFiles = <<>>
    /\ idx = 1
    /\ contextItems = <<>>
    /\ totalBytes = 0
    /\ processedFiles = 0
    /\ reads = <<>>
    /\ aggResult = <<>>
    /\ aggThrown = FALSE

\* if (!selectedFolderUri) return []
ReturnNoQuery ==
    /\ aggPc = "start"
    /\ query = <<>>
    /\ aggPc' = "done"
    /\ aggResult' = <<>>
    /\ UNCHANGED <<query, walkOutcome, fileUris, filteredFiles, idx, contextItems,
                   totalBytes, processedFiles, reads, aggThrown>>
    /\ UNCHANGED <<fltVars, buildVars, panelVars, actVars>>

\* await walkDir(...) is issued
CallWalkDir ==
    /\ aggPc = "start"
    /\ query # <<>>
    /\ aggPc' = "walking"
    /\ UNCHANGED <<query, walkOutcome, fileUris, filteredFiles, idx, contextItems,
                   totalBytes, processedFiles, reads, aggResult, aggThrown>>
    /\ UNCHANGED <<fltVars, buildVars, panelVars, actVars>>

\* walkDir resolves: filterFiles, the empty case, the locals of the loop
WalkDirReturns ==
    /\ aggPc = "walking"
    /\ walkOutcome' = "returned"
    /\ \E uris \in WalkResults :
          LET filtered == filterFiles(uris)
          IN  /\ fileUris' = uris
              /\ filteredFiles' = filtered
              /\ IF Len(filtered) = 0
                 THEN /\ aggPc' = "done"
                      /\ aggResult' = noFilesResult
                 ELSE /\ aggPc' = "loop"
                      /\ aggResult' = aggResult
    /\ UNCHANGED <<query, idx, contextItems, totalBytes, processedFiles, reads,
                   aggThrown>>
    /\ UNCHANGED <<fltVars, buildVars, panelVars, actVars>>

\* walkDir rejects: the outer catch
WalkDirThrows ==
    /\ aggPc = "walking"
    /\ \E msg \in WalkErrors :
          /\ aggThrown' = topLevelCatch(msg).thrown
          /\ aggResult' = topLevelCatch(msg).result
    /\ walkOutcome' = "threw"
    /\ aggPc' = "done"
    /\ UNCHANGED <<query, fileUris, filteredFiles, idx, contextItems, totalBytes,
                   processedFiles, reads>>
    /\ UNCHANGED <<fltVars, buildVars, panelVars, actVars>>

\* iteration: the file limit is reached, no read is made
FilesLimitReached ==
    /\ aggPc = "loop"
    /\ filesLimitReached(processedFiles)
    /\ BreakLoop(pushFilesLimit(Here))
    /\ UNCHANGED <<query, walkOutcome, fileUris, filteredFiles, reads, aggThrown>>
    /\ UNCHANGED <<fltVars, buildVars, panelVars, actVars>>

\* iteration: readFile rejects
ReadFileFails ==
    /\ aggPc = "loop"
    /\ ~filesLimitReached(processedFiles)
    /\ \E msg \in ReadErrors :
          /\ reads' = Append(reads, [uri |-> filteredFiles[idx], ok |-> FALSE,
                                     bytes |-> 0, msg |-> msg])
          /\ NextFile(pushReadError(Here, filteredFiles[idx], msg))
    /\ UNCHANGED <<query, walkOutcome, fileUris, filteredFiles, aggThrown>>
    /\ UNCHANGED <<fltVars, buildVars, panelVars, actVars>>

\* iteration: readFile resolves with a content over the per-file cap
ReadFileTruncated ==
    /\ aggPc = "loop"
    /\ ~filesLimitReached(processedFiles)
    /\ \E fileContent \in Contents :
          /\ overPerFileCap(blobSize(fileContent))
          /\ reads' = Append(reads, [uri |-> filteredFiles[idx], ok |-> TRUE,
                                     bytes |-> blobSize(fileContent), msg |-> ""])
          /\ NextFile(pushTruncated(Here, filteredFiles[idx], fileContent))
    /\ UNCHANGED <<query, walkOutcome, fileUris, filteredFiles, aggThrown>>
    /\ UNCHANGED <<fltVars, buildVars, panelVars, actVars>>

\* iteration: readFile resolves with a content that would pass the total cap
SizeLimitReached ==
    /\ aggPc = "loop"
    /\ ~filesLimitReached(processedFiles)
    /\ \E fileContent \in Contents :
          /\ ~overPerFileCap(blobSize(fileContent))
          /\ overTotalCap(totalBytes, blobSize(fileContent))
          /\ reads' = Append(reads, [uri |-> filteredFiles[idx], ok |-> TRUE,
                                     bytes |-> blobSize(fileContent), msg |-> ""])
          /\ BreakLoop(pushSizeLimit(Here))
    /\ UNCHANGED <<query, walkOutcome, fileUris, filteredFiles, aggThrown>>
    /\ UNCHANGED <<fltVars, buildVars, panelVars, actVars>>

\* iteration: readFile resolves with a content that is included in full
ReadFileIncluded ==
    /\ aggPc = "loop"
    /\ ~filesLimitReached(processedFiles)
    /\ \E fileContent \in Contents :
          /\ ~overPerFileCap(blobSize(fileContent))
          /\ ~overTotalCap(totalBytes, blobSize(fileContent))
          /\ reads' = Append(reads, [uri |-> filteredFiles[idx], ok |-> TRUE,
                                     bytes |-> blobSize(fileContent), msg |-> ""])
          /\ NextFile(pushFile(Here, filteredFiles[idx], fileContent))
    /\ UNCHANGED <<query, walkOutcome, fileUris, filteredFiles, aggThrown>>
    /\ UNCHANGED <<fltVars, buildVars, panelVars, actVars>>

(***************************************************************************)
(* streamBuildKvCacheThunk                                                 *)
(***************************************************************************)
\* String.prototype.includes
includes(s, sub) ==
    \E i \in 1..(Len(s) - Len(sub) + 1) : SubSeq(s, i, i + Len(sub) - 1) = sub

NotEnoughContext == <<"N", "o", "t", " ", "e", "n", "o", "u", "g", "h", " ", "c", "o", "n", "t", "e", "x", "t">>

\* The error messages a compilation response of status error may carry.
CompileErrors ==
    { <<"N", "o", "t", " ", "e", "n", "o", "u", "g", "h", " ", "c", "o", "n", "t", "e", "x", "t", " ", "f", "o", "r", " ", "t", "h", "i", "s", " ", "r", "e", "q", "u", "e", "s", "t">>,
      <<"E", "r", "r", "o", "r", ":", " ", "N", "o", "t", " ", "e", "n", "o", "u", "g", "h", " ", "c", "o", "n", "t", "e", "x", "t">>,
      <<"n", "o", "t", " ", "e", "n", "o", "u", "g", "h", " ", "c", "o", "n", "t", "e", "x", "t">>,
      <<"C", "o", "n", "n", "e", "c", "t", "i", "o", "n", " ", "r", "e", "f", "u", "s", "e", "d">> }

NoError == [is |-> FALSE, message |-> <<>>]
Error(msg) == [is |-> TRUE, message |-> msg]

\* A history entry: a message, its context items, isHiddenFromChat.
HistoryItem(role, text, items, hidden) ==
    [role |-> role, content |-> text, contextItems |-> items, hidden |-> hidden]

PriorItems ==
    { HistoryItem("user", <<"earlier question">>, <<>>, FALSE),
      HistoryItem("assistant", <<"earlier answer">>, <<>>, FALSE) }

PriorHistories == SeqsUpTo(PriorItems, MaxPrior)

\* What resolveEditorContent may resolve with.
ResolvedContents == {<<"prompt">>, <<"other prompt">>}
\* Context items carry the type of their uri: "file" or "none".
ResolvedItems ==
    { <<>>,
      <<[name |-> "folder item", uriType |-> "file"]>>,
      <<[name |-> "note", uriType |-> "none"]>> }
ResolveErrors == {<<"Failed to resolve context">>}

\* What the response generator may yield, return and throw.
Units == {"u1", "u2"}
NoValue == [defined |-> FALSE, prompt |-> "", completion |-> ""]
FinalValues == {NoValue, [defined |-> TRUE, prompt |-> "p", completion |-> "c"]}
StreamErrors == {<<"Connection error">>}

NoResponse ==
    [status |-> "none", error |-> <<>>, compiledChatMessages |-> <<>>,
     didPrune |-> FALSE, contextPercentage |-> 0]

NoGen == [called |-> FALSE, messages |-> <<>>, precompiled |-> FALSE]

\* let next: {done: false, value: unit} or {done: true, value: final record}
NoNext == [done |-> FALSE, unit |-> "none", final |-> NoValue]
Yielded(unit) == [done |-> FALSE, unit |-> unit, final |-> NoValue]
Returned(value) == [done |-> TRUE, unit |-> "none", final |-> value]

\* sessionSlice.submitEditorAndInitAtIndex for index = history.length: a new
\* input entry and a new, empty response entry
submitEditorAndInitAtIndex(h, index) ==
    h \o << HistoryItem("user", <<>>, <<>>, FALSE),
            HistoryItem("assistant", <<>>, <<>>, FALSE) >>

\* sessionSlice.updateHistoryItemAtIndex({index, updates}): index is 0-based
updateHistoryItemAtIndex(h, index, updates) ==
    IF index + 1 \in DOMAIN h
    THEN [h EXCEPT ![index + 1] =
            [f \in DOMAIN h[index + 1] |->
                IF f \in DOMAIN updates THEN updates[f] ELSE h[index + 1][f]]]
    ELSE h

\* Variant: the history handed to constructMessages is the session history
\* followed by the current turn.
minimalHistory_WithPrior(text, items) ==
    [i \in 1..Len(historyAtStart) |->
        [role |-> historyAtStart[i].role, content |-> historyAtStart[i].content,
         contextItems |-> historyAtStart[i].contextItems]]
    \o <<[role |-> "user", content |-> text, contextItems |-> items]>>

\* const minimalHistory
minimalHistory(text, items) ==
    <<[role |-> "user", content |-> text, contextItems |-> items]>>

\* constructMessages(history, baseSystemMessage, rules, ruleSettings): the
\* system message, then every turn of the history with its context items
constructMessages(h) ==
    <<[role |-> "system", content |-> <<"base system message">>, contextItems |-> <<>>]>>
    \o h

\* The compiled messages of a response: the messages, pruned or not.
compiledOf(msgs, didPrune) ==
    IF didPrune
    THEN [i \in 1..Len(msgs) |-> [msgs[i] EXCEPT !.contextItems = <<>>]]
    ELSE msgs

\* Variant: only a message equal to the signal is taken as not-enough-context.
isOutOfContext_Exact(error) == error = NotEnoughContext

\* precompiledRes.error.includes("Not enough context")
isOutOfContext(error) == includes(error, NotEnoughContext)

\* const filesForSymbols: the context items that have a file uri (the
\* editor state of the build holds no selected code)
filesForSymbols(items) == SelectSeq(items, LAMBDA item : item.uriType = "file")

\* An asynchronous operation is started.
start(fl, op) == fl \cup {op}

\* Variant: an operation that settled is still counted as in flight.
settle_Keep(fl, op) == fl

\* await: the operation has settled when the callback goes on.
settle(fl, op) == fl \ {op}

\* The operations the callback awaits; the file-symbols update is dispatched
\* with void and is not among them.
Awaited == {"resolveEditorContent", "llm/compileChat", "gen.next"}
SymbolsRequest == "context/getSymbolsForFiles"

\* Variant: the response entry is left visible.
responseUpdates_Visible == [hidden |-> FALSE]

\* The updates of the second updateHistoryItemAtIndex: isHiddenFromChat
responseUpdates == [hidden |-> TRUE]

\* Variant: the stream is opened with the messages as constructed.
streamRequest_Uncompiled(res) ==
    [called |-> TRUE, messages |-> messages, precompiled |-> TRUE]

\* The argument of llmStreamChat
streamRequest(res) ==
    [called |-> TRUE, messages |-> res.compiledChatMessages, precompiled |-> TRUE]

\* Variant: the loop goes on whatever the flag says.
stillActive_Ignored(active) == TRUE

\* getState().session.isStreaming, read at the top of the loop body
stillActive(active) == active

\* Variant: the unit is put in front of the units relayed so far.
relay_Prepend(sofar, unit) == <<unit>> \o sofar

\* dispatch(streamUpdate(next.value))
relay(sofar, unit) == Append(sofar, unit)

\* Variant: a failure of the devdata post leaves the callback.
catchPostFailure_Rethrow(postThrows) ==
    IF postThrows THEN Error(<<"Failed to send dev data interaction log">>) ELSE NoError

\* try { post("devdata/log") } catch (e) { console.error(...) }: what is
\* thrown on after the post
catchPostFailure(postThrows) == NoError

\* Variant: the last dispatch of the callback is left out.
restoreIdle_Omitted(active) == active

\* dispatch(setInactive()) at the end of the callback
restoreIdle(active) == FALSE

BuildIdle ==
    /\ buildPc = "idle"
    /\ history = <<>>
    /\ historyAtStart = <<>>
    /\ selectedChatModel = TRUE
    /\ inputIndex = 0
    /\ content = <<>>
    /\ selectedContextItems = <<>>
    /\ cmHistory = <<>>
    /\ messages = <<>>
    /\ isStreaming = FALSE
    /\ inlineErrorMessage = "undefined"
    /\ isPruned = FALSE
    /\ contextPercentage = 0
    /\ precompiledRes = NoResponse
    /\ genArgs = NoGen
    /\ streamed = <<>>
    /\ streamAborted = FALSE
    /\ promptLog = <<>>
    /\ thrown = NoError
    /\ showDialog = FALSE
    /\ thunkResult = [type |-> "pending", error |-> <<>>]
    /\ trace = <<>>
    /\ yielded = <<>>
    /\ next = NoNext
    /\ inFlight = {}
    /\ postOutcome = "none"

BuildInit ==
    /\ buildPc = "idle"
    /\ history \in PriorHistories
    /\ historyAtStart = history
    /\ selectedChatModel \in BOOLEAN
    /\ inputIndex = 0
    /\ content = <<>>
    /\ selectedContextItems = <<>>
    /\ cmHistory = <<>>
    /\ messages = <<>>
    /\ isStreaming = FALSE
    /\ inlineErrorMessage \in {"undefined", "out-of-context"}
    /\ isPruned = FALSE
    /\ contextPercentage = 0
    /\ precompiledRes = NoResponse
    /\ genArgs = NoGen
    /\ streamed = <<>>
    /\ streamAborted = FALSE
    /\ promptLog = <<>>
    /\ thrown = NoError
    /\ showDialog = FALSE
    /\ thunkResult = [type |-> "pending", error |-> <<>>]
    /\ trace = <<>>
    /\ yielded = <<>>
    /\ next = NoNext
    /\ inFlight = {}
    /\ postOutcome = "none"

\* The thunk is dispatched with no chat model selected: the callback throws.
StartWithoutModel ==
    /\ buildPc = "idle"
    /\ ~selectedChatModel
    /\ inputIndex' = Len(history)
    /\ thrown' = Error(<<"No chat model selected">>)
    /\ buildPc' = "threw"
    /\ UNCHANGED <<history, historyAtStart, selectedChatModel, content,
                   selectedContextItems, cmHistory, messages, isStreaming,
                   inlineErrorMessage, isPruned, contextPercentage, precompiledRes,
                   genArgs, streamed, streamAborted, promptLog, showDialog,
                   thunkResult>>
    /\ UNCHANGED <<trace, yielded, next, inFlight, postOutcome>>
    /\ UNCHANGED <<fltVars, aggVars, panelVars, actVars>>

\* The thunk is dispatched: the entries are registered and
\* resolveEditorContent is awaited.
StartBuild ==
    /\ buildPc = "idle"
    /\ selectedChatModel
    /\ inputIndex' = Len(history)
    /\ history' = submitEditorAndInitAtIndex(history, Len(history))
    /\ buildPc' = "resolving"
    /\ UNCHANGED <<historyAtStart, selectedChatModel, content, selectedContextItems,
                   cmHistory, messages, isStreaming, inlineErrorMessage, isPruned,
                   contextPercentage, precompiledRes, genArgs, streamed,
                   streamAborted, promptLog, thrown, showDialog, thunkResult>>
    /\ trace' = trace \o <<"submitEditorAndInitAtIndex", "resetNextCodeBlockToApplyIndex",
                          "resolveEditorContent">>
    /\ inFlight' = start(inFlight, "resolveEditorContent")
    /\ UNCHANGED <<yielded, next, postOutcome>>
    /\ UNCHANGED <<fltVars, aggVars, panelVars, actVars>>

\* resolveEditorContent rejects.
ResolveThrows ==
    /\ buildPc = "resolving"
    /\ \E msg \in ResolveErrors : thrown' = Error(msg)
    /\ buildPc' = "threw"
    /\ UNCHANGED <<history, historyAtStart, selectedChatModel, inputIndex, content,
                   selectedContextItems, cmHistory, messages, isStreaming,
                   inlineErrorMessage, isPruned, contextPercentage, precompiledRes,
                   genArgs, streamed, streamAborted, promptLog, showDialog,
                   thunkResult>>
    /\ inFlight' = settle(inFlight, "resolveEditorContent")
    /\ UNCHANGED <<trace, yielded, next, postOutcome>>
    /\ UNCHANGED <<fltVars, aggVars, panelVars, actVars>>

\* resolveEditorContent resolves: the input entry is filled in and hidden,
\* the messages are constructed from the minimal history, the response entry
\* is hidden, setActive, setInlineErrorMessage(undefined), and llm/compileChat
\* is requested.
ResolveReturns ==
    /\ buildPc = "resolving"
    /\ \E text \in ResolvedContents, items \in ResolvedItems :
          /\ content' = text
          /\ selectedContextItems' = items
          /\ cmHistory' = minimalHistory(text, items)
          /\ messages' = constructMessages(minimalHistory(text, items))
          /\ history' =
                updateHistoryItemAtIndex(
                    updateHistoryItemAtIndex(history, inputIndex,
                        [role |-> "user", content |-> text, contextItems |-> items,
                         hidden |-> TRUE]),
                    inputIndex + 1, responseUpdates)
          /\ inFlight' =
                start(IF filesForSymbols(items) # <<>>
                      THEN start(settle(inFlight, "resolveEditorContent"), SymbolsRequest)
                      ELSE settle(inFlight, "resolveEditorContent"),
                      "llm/compileChat")
    /\ trace' = trace \o <<"updateFileSymbolsFromFiles", "updateHistoryItemAtIndex",
                          "updateHistoryItemAtIndex", "setActive",
                          "setInlineErrorMessage", "llm/compileChat">>
    /\ isStreaming' = TRUE
    /\ inlineErrorMessage' = "undefined"
    /\ buildPc' = "compiling"
    /\ UNCHANGED <<yielded, next, postOutcome>>
    /\ UNCHANGED <<historyAtStart, selectedChatModel, inputIndex, isPruned,
                   contextPercentage, precompiledRes, genArgs, streamed,
                   streamAborted, promptLog, thrown, showDialog, thunkResult>>
    /\ UNCHANGED <<fltVars, aggVars, panelVars, actVars>>

\* The compilation response has status error and the not-enough-context
\* signal: the inline error is set, setInactive, return.
CompileOutOfContext ==
    /\ buildPc = "compiling"
    /\ \E error \in CompileErrors :
          /\ isOutOfContext(error)
          /\ precompiledRes' = [NoResponse EXCEPT !.status = "error", !.error = error]
    /\ inlineErrorMessage' = "out-of-context"
    /\ isStreaming' = FALSE
    /\ buildPc' = "returned"
    /\ UNCHANGED <<history, historyAtStart, selectedChatModel, inputIndex, content,
                   selectedContextItems, cmHistory, messages, isPruned,
                   contextPercentage, genArgs, streamed, streamAborted, promptLog,
                   thrown, showDialog, thunkResult>>
    /\ trace' = trace \o <<"setInlineErrorMessage", "setInactive">>
    /\ inFlight' = settle(inFlight, "llm/compileChat")
    /\ UNCHANGED <<yielded, next, postOutcome>>
    /\ UNCHANGED <<fltVars, aggVars, panelVars, actVars>>

\* The compilation response has status error and another message: throw.
CompileFails ==
    /\ buildPc = "compiling"
    /\ \E error \in CompileErrors :
          /\ ~isOutOfContext(error)
          /\ precompiledRes' = [NoResponse EXCEPT !.status = "error", !.error = error]
          /\ thrown' = Error(error)
    /\ buildPc' = "threw"
    /\ UNCHANGED <<history, historyAtStart, selectedChatModel, inputIndex, content,
                   selectedContextItems, cmHistory, messages, isStreaming,
                   inlineErrorMessage, isPruned, contextPercentage, genArgs,
                   streamed, streamAborted, promptLog, showDialog, thunkResult>>
    /\ inFlight' = settle(inFlight, "llm/compileChat")
    /\ UNCHANGED <<trace, yielded, next, postOutcome>>
    /\ UNCHANGED <<fltVars, aggVars, panelVars, actVars>>

\* The compilation response has status ok: setIsPruned, setContextPercentage,
\* llmStreamChat is called and the first gen.next() is awaited.
CompileSucceeds ==
    /\ buildPc = "compiling"
    /\ \E didPrune \in BOOLEAN, percentage \in {0, 1} :
          LET res == [status |-> "ok", error |-> <<>>,
                      compiledChatMessages |-> compiledOf(messages, didPrune),
                      didPrune |-> didPrune, contextPercentage |-> percentage]
          IN  /\ precompiledRes' = res
              /\ isPruned' = res.didPrune
              /\ contextPercentage' = res.contextPercentage
              /\ genArgs' = streamRequest(res)
    /\ buildPc' = "streaming"
    /\ UNCHANGED <<history, historyAtStart, selectedChatModel, inputIndex, content,
                   selectedContextItems, cmHistory, messages, isStreaming,
                   inlineErrorMessage, streamed, streamAborted, promptLog, thrown,
                   showDialog, thunkResult>>
    /\ trace' = trace \o <<"setIsPruned", "setContextPercentage", "llmStreamChat", "gen.next">>
    /\ inFlight' = start(settle(inFlight, "llm/compileChat"), "gen.next")
    /\ UNCHANGED <<yielded, next, postOutcome>>
    /\ UNCHANGED <<fltVars, aggVars, panelVars, actVars>>

\* gen.next() resolves with a unit while the stream is active: streamUpdate,
\* and the next gen.next() is awaited.
StreamYields ==
    /\ buildPc = "streaming"
    /\ stillActive(isStreaming)
    /\ Len(yielded) < MaxUnits
    /\ \E unit \in Units :
          /\ next' = Yielded(unit)
          /\ yielded' = Append(yielded, unit)
          /\ streamed' = relay(streamed, unit)
    /\ trace' = trace \o <<"streamUpdate", "gen.next">>
    /\ inFlight' = start(settle(inFlight, "gen.next"), "gen.next")
    /\ UNCHANGED postOutcome
    /\ UNCHANGED <<buildPc, history, historyAtStart, selectedChatModel, inputIndex,
                   content, selectedContextItems, cmHistory, messages, isStreaming,
                   inlineErrorMessage, isPruned, contextPercentage, precompiledRes,
                   genArgs, streamAborted, promptLog, thrown, showDialog,
                   thunkResult>>
    /\ UNCHANGED <<fltVars, aggVars, panelVars, actVars>>

\* gen.next() resolves with a unit after the stream was made inactive:
\* abortStream, break, setInactive, return.
StreamCancelled ==
    /\ buildPc = "streaming"
    /\ ~stillActive(isStreaming)
    /\ \E unit \in Units :
          /\ next' = Yielded(unit)
          /\ yielded' = Append(yielded, unit)
    /\ streamAborted' = TRUE
    /\ isStreaming' = restoreIdle(isStreaming)
    /\ trace' = trace \o <<"abortStream", "setInactive">>
    /\ inFlight' = settle(inFlight, "gen.next")
    /\ buildPc' = "returned"
    /\ UNCHANGED postOutcome
    /\ UNCHANGED <<history, historyAtStart, selectedChatModel, inputIndex, content,
                   selectedContextItems, cmHistory, messages, inlineErrorMessage,
                   isPruned, contextPercentage, precompiledRes, genArgs, streamed,
                   promptLog, thrown, showDialog, thunkResult>>
    /\ UNCHANGED <<fltVars, aggVars, panelVars, actVars>>

\* gen.next() resolves with done: the pair, if any, is logged (a failure of
\* the devdata post is caught), setInactive, return.
StreamCompletes ==
    /\ buildPc = "streaming"
    /\ \E value \in FinalValues, postThrows \in BOOLEAN :
          /\ ~value.defined => ~postThrows
          /\ next' = Returned(value)
          /\ promptLog' = IF value.defined THEN Append(promptLog, value) ELSE promptLog
          /\ postOutcome' = IF ~value.defined THEN postOutcome
                            ELSE IF postThrows THEN "threw" ELSE "posted"
          /\ thrown' = IF value.defined THEN catchPostFailure(postThrows) ELSE thrown
          /\ trace' = trace
                \o (IF value.defined
                    THEN <<"addPromptCompletionPair", "devdata/log">> ELSE <<>>)
                \o (IF thrown'.is THEN <<>> ELSE <<"setInactive">>)
    /\ isStreaming' = IF thrown'.is THEN isStreaming ELSE restoreIdle(isStreaming)
    /\ buildPc' = IF thrown'.is THEN "threw" ELSE "returned"
    /\ inFlight' = settle(inFlight, "gen.next")
    /\ UNCHANGED yielded
    /\ UNCHANGED <<history, historyAtStart, selectedChatModel, inputIndex, content,
                   selectedContextItems, cmHistory, messages, inlineErrorMessage,
                   isPruned, contextPercentage, precompiledRes, genArgs, streamed,
                   streamAborted, showDialog, thunkResult>>
    /\ UNCHANGED <<fltVars, aggVars, panelVars, actVars>>

\* gen.next() rejects.
StreamThrows ==
    /\ buildPc = "streaming"
    /\ \E msg \in StreamErrors : thrown' = Error(msg)
    /\ buildPc' = "threw"
    /\ UNCHANGED <<history, historyAtStart, selectedChatModel, inputIndex, content,
                   selectedContextItems, cmHistory, messages, isStreaming,
                   inlineErrorMessage, isPruned, contextPercentage, precompiledRes,
                   genArgs, streamed, streamAborted, promptLog, showDialog,
                   thunkResult>>
    /\ inFlight' = settle(inFlight, "gen.next")
    /\ UNCHANGED <<trace, yielded, next, postOutcome>>
    /\ UNCHANGED <<fltVars, aggVars, panelVars, actVars>>

\* The stream is made inactive from the UI while the build waits.
CancelFromUi ==
    /\ buildPc \in {"compiling", "streaming"}
    /\ isStreaming
    /\ isStreaming' = FALSE
    /\ UNCHANGED <<buildPc, history, historyAtStart, selectedChatModel, inputIndex,
                   content, selectedContextItems, cmHistory, messages,
                   inlineErrorMessage, isPruned, contextPercentage, precompiledRes,
                   genArgs, streamed, streamAborted, promptLog, thrown, showDialog,
                   thunkResult>>
    /\ UNCHANGED <<trace, yielded, next, inFlight, postOutcome>>
    /\ UNCHANGED <<fltVars, aggVars, panelVars, actVars>>

\* The request of updateFileSymbolsFromFiles, dispatched with void, settles.
FileSymbolsSettles ==
    /\ SymbolsRequest \in inFlight
    /\ inFlight' = inFlight \ {SymbolsRequest}
    /\ UNCHANGED <<buildPc, history, historyAtStart, selectedChatModel, inputIndex,
                   content, selectedContextItems, cmHistory, messages, isStreaming,
                   inlineErrorMessage, isPruned, contextPercentage, precompiledRes,
                   genArgs, streamed, streamAborted, promptLog, thrown, showDialog,
                   thunkResult, trace, yielded, next, postOutcome>>
    /\ UNCHANGED <<fltVars, aggVars, panelVars, actVars>>

\* await dispatch(streamThunkWrapper(...)): the dispatch of an async thunk
\* resolves with its action, fulfilled or rejected, and never throws, so the
\* payload creator returns and the build thunk is fulfilled.
outcomeOfDispatch == [type |-> "fulfilled", error |-> <<>>]

\* streamThunkWrapper: the callback returned.
WrapperReturns ==
    /\ buildPc = "returned"
    /\ thunkResult' = outcomeOfDispatch
    /\ buildPc' = "done"
    /\ UNCHANGED <<history, historyAtStart, selectedChatModel, inputIndex, content,
                   selectedContextItems, cmHistory, messages, isStreaming,
                   inlineErrorMessage, isPruned, contextPercentage, precompiledRes,
                   genArgs, streamed, streamAborted, promptLog, thrown, showDialog>>
    /\ UNCHANGED <<trace, yielded, next, inFlight, postOutcome>>
    /\ UNCHANGED <<fltVars, aggVars, panelVars, actVars>>

\* streamThunkWrapper: the callback threw and the wrapper catches: the
\* stream is cancelled and the error dialog is shown.
WrapperCatches ==
    /\ buildPc = "threw"
    /\ isStreaming' = FALSE
    /\ streamAborted' = TRUE
    /\ showDialog' = TRUE
    /\ thunkResult' = outcomeOfDispatch
    /\ buildPc' = "done"
    /\ UNCHANGED <<history, historyAtStart, selectedChatModel, inputIndex, content,
                   selectedContextItems, cmHistory, messages, inlineErrorMessage,
                   isPruned, contextPercentage, precompiledRes, genArgs, streamed,
                   promptLog, thrown>>
    /\ UNCHANGED <<trace, yielded, next, inFlight, postOutcome>>
    /\ UNCHANGED <<fltVars, aggVars, panelVars, actVars>>

\* streamThunkWrapper: the callback threw and the wrapper's own action is
\* rejected with the error.
WrapperRejects ==
    /\ buildPc = "threw"
    /\ thunkResult' = outcomeOfDispatch
    /\ buildPc' = "done"
    /\ UNCHANGED <<history, historyAtStart, selectedChatModel, inputIndex, content,
                   selectedContextItems, cmHistory, messages, isStreaming,
                   inlineErrorMessage, isPruned, contextPercentage, precompiledRes,
                   genArgs, streamed, streamAborted, promptLog, thrown, showDialog>>
    /\ UNCHANGED <<trace, yielded, next, inFlight, postOutcome>>
    /\ UNCHANGED <<fltVars, aggVars, panelVars, actVars>>

(***************************************************************************)
(* EnableAiDaptivSetting and AiDaptivSettingsSection                       *)
(***************************************************************************)
VLLM_ENDPOINT == <<"http://localhost:13141/v1">>
MODEL_NAME == <<"Meta-Llama-3.1-8B-Instruct-Q4_K_M">>

\* FileType.Directory
FileTypeDirectory == 2

\* The characters of the names below, in ascending order of UTF-16 code unit.
CodeUnitOrder ==
    <<".", "L", "_", "a", "b", "c", "d", "g", "i", "l", "o", "p", "r", "s", "t">>

codeUnit(ch) == CHOOSE i \in DOMAIN CodeUnitOrder : CodeUnitOrder[i] = ch

\* The comparison of Array.prototype.sort() without a comparator: a sorts
\* before b when it is smaller by code units.
precedes(a, b) ==
    \E k \in 1..(Len(a) + 1) :
        /\ k <= Len(b)
        /\ \A j \in 1..(k - 1) : a[j] = b[j]
        /\ k <= Len(a) => codeUnit(a[k]) < codeUnit(b[k])

RemoveAt(s, i) == SubSeq(s, 1, i - 1) \o SubSeq(s, i + 1, Len(s))

\* Array.prototype.sort()
RECURSIVE sort(_)
sort(s) ==
    IF s = <<>> THEN <<>>
    ELSE LET m == CHOOSE i \in DOMAIN s :
                      /\ \A j \in DOMAIN s : ~precedes(s[j], s[i])
                      /\ \A j \in 1..(i - 1) : s[j] # s[i]
         IN  <<s[m]>> \o sort(RemoveAt(s, m))

\* items.filter(type is directory).map(name).filter(not hidden, not cache)
directoryNames(items) ==
    LET dirs == SelectSeq(items, LAMBDA item : item.type = FileTypeDirectory)
        names == [i \in DOMAIN dirs |-> dirs[i].name]
    IN  SelectSeq(names, LAMBDA name : ~startsWith(name, <<".">>) /\ ~startsWith(name, <<"_", "_">>))

\* const subFolderPath
subFolderPath(root, name) ==
    LET separator == IF includes(root, <<"\\">>) THEN <<"\\">> ELSE <<"/">>
    IN  root \o (IF endsWith(root, separator) THEN <<>> ELSE separator) \o name

\* What ide.listDir may resolve with: [filename, FileType] tuples.
DirEntries ==
    { [name |-> <<"s", "r", "c">>, type |-> 2],
      [name |-> <<"a", "p", "p">>, type |-> FileTypeDirectory],
      [name |-> <<"L", "i", "b">>, type |-> FileTypeDirectory],
      [name |-> <<".", "g", "i", "t">>, type |-> FileTypeDirectory],
      [name |-> <<"_", "_", "p">>, type |-> FileTypeDirectory],
      [name |-> <<"d", "o", "c">>, type |-> 1] }

Listings ==
    {s \in SeqsUpTo(DirEntries, MaxEntries) : \A i, j \in DOMAIN s : i # j => s[i] # s[j]}

\* What ide.getWorkspaceDirs may resolve with.
WorkspaceDirLists ==
    { <<>>,
      << <<"/", "w">> >>,
      << <<"C", ":", "\\", "w", "\\">>, <<"/", "w">> >> }

IdeErrors == {<<"EIO">>}

Message(text, arg) == [text |-> text, arg |-> arg]

\* AiDaptivSettingsSection.handleStatusChange
onStatusChange(building, newProgress, newStatus, message) ==
    /\ sectionIsBuilding' = building
    /\ progress' = newProgress
    /\ status' = newStatus
    /\ statusMessage' = message

sectionVars == <<sectionIsBuilding, progress, status, statusMessage>>

\* handleEnableClick: catch (error) { ... } finally { setIsBuilding(false) }
CatchBuildError(msg) ==
    /\ buildError' = Error(msg)
    /\ onStatusChange(FALSE, 0, "failed", Message("Error: ", msg))
    /\ isBuilding' = FALSE
    /\ panelPc' = "done"

PanelIdle ==
    /\ panelPc = "idle"
    /\ secondPc = "idle"
    /\ dirItems = <<>>
    /\ isBuilding = FALSE
    /\ buildError = NoError
    /\ buildCancelledRef = FALSE
    /\ workspaceRoot = <<>>
    /\ folderName = <<>>
    /\ firstFolder = <<>>
    /\ disableIndexing = FALSE
    /\ sectionIsBuilding = FALSE
    /\ progress = 0
    /\ status = "idle"
    /\ statusMessage = Message("", <<>>)

PanelInit ==
    /\ panelPc = "idle"
    /\ secondPc = "idle"
    /\ dirItems = <<>>
    /\ isBuilding = FALSE
    /\ buildError = NoError
    /\ buildCancelledRef = FALSE
    /\ workspaceRoot = <<>>
    /\ folderName = <<>>
    /\ firstFolder = <<>>
    /\ disableIndexing = TRUE
    /\ sectionIsBuilding = FALSE
    /\ progress = 0
    /\ status = "idle"
    /\ statusMessage = Message("", <<>>)

\* The store when the Build button is clicked, in a new session: the error
\* dialog may be showing.
PanelBuildInit ==
    /\ buildPc = "idle"
    /\ history = <<>>
    /\ historyAtStart = history
    /\ selectedChatModel \in BOOLEAN
    /\ inputIndex = 0
    /\ content = <<>>
    /\ selectedContextItems = <<>>
    /\ cmHistory = <<>>
    /\ messages = <<>>
    /\ isStreaming = FALSE
    /\ inlineErrorMessage = "undefined"
    /\ isPruned = FALSE
    /\ contextPercentage = 0
    /\ precompiledRes = NoResponse
    /\ genArgs = NoGen
    /\ streamed = <<>>
    /\ streamAborted = FALSE
    /\ promptLog = <<>>
    /\ thrown = NoError
    /\ showDialog \in BOOLEAN
    /\ thunkResult = [type |-> "pending", error |-> <<>>]
    /\ trace = <<>>
    /\ yielded = <<>>
    /\ next = NoNext
    /\ inFlight = {}
    /\ postOutcome = "none"

\* handleEnableClick up to await getWorkspaceDirs(); the button is disabled
\* while isBuilding.
ClickBuild ==
    /\ panelPc = "idle"
    /\ ~isBuilding
    /\ IF VLLM_ENDPOINT = <<>> \/ MODEL_NAME = <<>>
       THEN /\ buildError' =
                  Error(<<"Please configure VLLM_ENDPOINT and MODEL_NAME in the code first">>)
            /\ onStatusChange(FALSE, 0, "failed",
                  Message("Please configure VLLM_ENDPOINT and MODEL_NAME first", <<>>))
            /\ panelPc' = "done"
            /\ UNCHANGED <<isBuilding, buildCancelledRef>>
       ELSE /\ isBuilding' = TRUE
            /\ buildError' = NoError
            /\ buildCancelledRef' = FALSE
            /\ onStatusChange(TRUE, 10, "building",
                  Message("Getting workspace directory...", <<>>))
            /\ panelPc' = "getWorkspaceDirs"
    /\ UNCHANGED <<workspaceRoot, folderName, firstFolder, disableIndexing>>
    /\ UNCHANGED <<dirItems, secondPc>>
    /\ UNCHANGED <<fltVars, aggVars, buildVars, actVars>>

\* getWorkspaceDirs() resolves.
GetWorkspaceDirsReturns ==
    /\ panelPc = "getWorkspaceDirs"
    /\ \E workspaceDirs \in WorkspaceDirLists :
          IF Len(workspaceDirs) = 0
          THEN /\ CatchBuildError(<<"Workspace directory not found">>)
               /\ UNCHANGED workspaceRoot
          ELSE /\ workspaceRoot' = workspaceDirs[1]
               /\ onStatusChange(TRUE, 15, "building",
                     Message("Finding first subdirectory in workspace...", <<>>))
               /\ panelPc' = "listDir"
               /\ UNCHANGED <<isBuilding, buildError>>
    /\ UNCHANGED <<buildCancelledRef, folderName, firstFolder, disableIndexing>>
    /\ UNCHANGED <<dirItems, secondPc>>
    /\ UNCHANGED <<fltVars, aggVars, buildVars, actVars>>

\* getWorkspaceDirs() rejects.
GetWorkspaceDirsThrows ==
    /\ panelPc = "getWorkspaceDirs"
    /\ \E msg \in IdeErrors : CatchBuildError(msg)
    /\ UNCHANGED <<buildCancelledRef, workspaceRoot, folderName, firstFolder,
                   disableIndexing>>
    /\ UNCHANGED <<dirItems, secondPc>>
    /\ UNCHANGED <<fltVars, aggVars, buildVars, actVars>>

\* listDir(workspaceRoot) resolves: the first subdirectory is chosen,
\* indexing is enabled, the editor state is constructed and the build thunk
\* is dispatched.
ListDirReturns ==
    /\ panelPc = "listDir"
    /\ \E items \in Listings :
          LET subdirectories == sort(directoryNames(items))
          IN  /\ dirItems' = items
              /\ IF Len(subdirectories) = 0
                 THEN /\ CatchBuildError(<<"No subdirectory found in workspace root">>)
                      /\ UNCHANGED <<folderName, firstFolder, disableIndexing>>
                 ELSE /\ folderName' = subdirectories[1]
                      /\ firstFolder' = subFolderPath(workspaceRoot, subdirectories[1])
                      /\ disableIndexing' = FALSE
                      /\ onStatusChange(TRUE, 60, "building",
                            Message("Sending folder contents to LLM...", <<>>))
                      /\ panelPc' = "dispatched"
                      /\ UNCHANGED <<isBuilding, buildError>>
    /\ UNCHANGED <<buildCancelledRef, workspaceRoot>>
    /\ UNCHANGED secondPc
    /\ UNCHANGED <<fltVars, aggVars, buildVars, actVars>>

\* listDir(workspaceRoot) rejects.
ListDirThrows ==
    /\ panelPc = "listDir"
    /\ \E msg \in IdeErrors : CatchBuildError(msg)
    /\ UNCHANGED <<buildCancelledRef, workspaceRoot, folderName, firstFolder,
                   disableIndexing>>
    /\ UNCHANGED <<dirItems, secondPc>>
    /\ UNCHANGED <<fltVars, aggVars, buildVars, actVars>>

\* await dispatch(streamBuildKvCacheThunk(...)) resolves with the thunk's
\* action: a rejected one is thrown on, otherwise the 100 ms timer is set.
DispatchResolves ==
    /\ panelPc = "dispatched"
    /\ buildPc = "done"
    /\ IF thunkResult.type = "rejected"
       THEN CatchBuildError(IF thunkResult.error # <<>> THEN thunkResult.error
                            ELSE <<"Failed to build KvCache">>)
       ELSE /\ panelPc' = "delay"
            /\ UNCHANGED <<isBuilding, buildError, sectionVars>>
    /\ UNCHANGED <<buildCancelledRef, workspaceRoot, folderName, firstFolder,
                   disableIndexing>>
    /\ UNCHANGED <<dirItems, secondPc>>
    /\ UNCHANGED <<fltVars, aggVars, buildVars, actVars>>

\* The timer fires: return when the build was marked cancelled, the success
\* message otherwise; finally setIsBuilding(false).
DelayElapses ==
    /\ panelPc = "delay"
    /\ IF buildCancelledRef
       THEN UNCHANGED sectionVars
       ELSE onStatusChange(FALSE, 100, "completed",
               Message("Successfully completed! KvCache built for ", folderName))
    /\ isBuilding' = FALSE
    /\ panelPc' = "done"
    /\ UNCHANGED <<buildError, buildCancelledRef, workspaceRoot, folderName,
                   firstFolder, disableIndexing>>
    /\ UNCHANGED <<dirItems, secondPc>>
    /\ UNCHANGED <<fltVars, aggVars, buildVars, actVars>>

\* useEffect(..., [showDialog, isBuilding, onStatusChange]): the error dialog
\* is showing while isBuilding.
ErrorDialogEffect ==
    /\ showDialog
    /\ isBuilding
    /\ buildCancelledRef' = TRUE
    /\ isBuilding' = FALSE
    /\ buildError' = Error(<<"Connection error occurred during streaming">>)
    /\ onStatusChange(FALSE, 0, "failed",
          Message("Error: Connection error occurred", <<>>))
    /\ UNCHANGED <<panelPc, workspaceRoot, folderName, firstFolder, disableIndexing>>
    /\ UNCHANGED <<dirItems, secondPc>>
    /\ UNCHANGED <<fltVars, aggVars, buildVars, actVars>>

\* The Build button is clicked again while an earlier handleEnableClick has
\* not returned: the button is disabled only while isBuilding.  The second
\* invocation runs up to its await getWorkspaceDirs().
ClickBuildAgain ==
    /\ panelPc \in {"getWorkspaceDirs", "listDir", "dispatched", "delay"}
    /\ secondPc = "idle"
    /\ ~isBuilding
    /\ IF VLLM_ENDPOINT = <<>> \/ MODEL_NAME = <<>>
       THEN /\ buildError' =
                  Error(<<"Please configure VLLM_ENDPOINT and MODEL_NAME in the code first">>)
            /\ onStatusChange(FALSE, 0, "failed",
                  Message("Please configure VLLM_ENDPOINT and MODEL_NAME first", <<>>))
            /\ secondPc' = "done"
            /\ UNCHANGED <<isBuilding, buildCancelledRef>>
       ELSE /\ isBuilding' = TRUE
            /\ buildError' = NoError
            /\ buildCancelledRef' = FALSE
            /\ onStatusChange(TRUE, 10, "building",
                  Message("Getting workspace directory...", <<>>))
            /\ secondPc' = "getWorkspaceDirs"
    /\ UNCHANGED <<panelPc, workspaceRoot, folderName, firstFolder, disableIndexing,
                   dirItems>>
    /\ UNCHANGED <<fltVars, aggVars, buildVars, actVars>>

(***************************************************************************)
(* activateExtension: the copy of the bundled Local Agent configuration    *)
(***************************************************************************)
\* The text of a file is a sequence of pieces, each a run of characters: the
\* words of the piece and the number of characters it takes.
Piece(words, length) == [words |-> words, length |-> length]

LocalAssistant == Piece("Local Assistant", 15)
LocalAgent == Piece("Local Agent", 11)
LowerCaseAgent == Piece("local agent", 11)
Yaml(length) == Piece("models:", length)

\* existingContent.length
RECURSIVE textLength(_)
textLength(text) ==
    IF text = <<>> THEN 0 ELSE Head(text).length + textLength(Tail(text))

\* existingContent.includes(marker), for texts cut so that a marker is a piece
textIncludes(text, marker) == \E i \in DOMAIN text : text[i].words = marker

\* if (existingContent.length < 100)
MinConfigLength == 100

NoFile == [exists |-> FALSE, text |-> <<>>]
File(text) == [exists |-> TRUE, text |-> text]

\* What config.yaml may hold before an activation: nothing, a marker alone, 99
\* and 100 characters with a marker, long texts without a marker or with one
\* in the wrong case, and a long text with the other marker.
ConfigTexts ==
    { <<>>,
      <<LocalAgent>>,
      <<Yaml(88), LocalAgent>>,
      <<Yaml(89), LocalAgent>>,
      <<Yaml(120)>>,
      <<Yaml(120), LowerCaseAgent>>,
      <<Yaml(100), LocalAssistant>> }

\* What the bundled local-agent-config.yaml may hold.
BundledTexts ==
    { <<Yaml(200), LocalAgent>>,
      <<Yaml(150)>>,
      <<LocalAssistant>> }

FsErrors == {<<"EACCES">>}

\* let shouldCopy, as decided from the file at targetConfigPath
needsCopy_BothMarkers(existing) ==
    IF ~existing.exists THEN TRUE
    ELSE IF textLength(existing.text) < MinConfigLength THEN TRUE
    ELSE IF ~textIncludes(existing.text, "Local Assistant")
            \/ ~textIncludes(existing.text, "Local Agent") THEN TRUE
    ELSE FALSE

\* let shouldCopy, as decided from the file at targetConfigPath
needsCopy(existing) ==
    IF ~existing.exists THEN TRUE
    ELSE IF textLength(existing.text) < MinConfigLength THEN TRUE
    ELSE IF ~textIncludes(existing.text, "Local Assistant")
            /\ ~textIncludes(existing.text, "Local Agent") THEN TRUE
    ELSE FALSE

ActIdle ==
    /\ actPc = "inactive"
    /\ sourceConfig = NoFile
    /\ targetConfig = NoFile
    /\ targetAtStart = NoFile
    /\ continueDir = FALSE
    /\ shouldCopy = FALSE
    /\ copyCalled = FALSE
    /\ caught = NoError
    /\ installedNotice = FALSE
    /\ hasBeenInstalled = FALSE
    /\ activations = 0

\* The file system and the global state before the first activation.
ActInit ==
    /\ actPc = "inactive"
    /\ sourceConfig \in {NoFile} \cup {File(text) : text \in BundledTexts}
    /\ targetConfig \in {NoFile} \cup {File(text) : text \in ConfigTexts}
    /\ targetAtStart = targetConfig
    /\ continueDir \in {dir \in BOOLEAN : targetConfig.exists => dir}
    /\ shouldCopy = FALSE
    /\ copyCalled = FALSE
    /\ caught = NoError
    /\ installedNotice = FALSE
    /\ hasBeenInstalled \in BOOLEAN
    /\ activations = 0

\* The extension is activated; the try block up to the decision: without a
\* bundled file nothing is done; mkdirSync or readFileSync may throw.
CheckConfig ==
    /\ actPc \in {"inactive", "active"}
    /\ activations < MaxActivations
    /\ targetAtStart' = targetConfig
    /\ copyCalled' = FALSE
    /\ installedNotice' = FALSE
    /\ IF ~sourceConfig.exists
       THEN /\ shouldCopy' = FALSE
            /\ caught' = NoError
            /\ actPc' = "configDone"
            /\ UNCHANGED continueDir
       ELSE \E fsThrows \in BOOLEAN :
               IF fsThrows /\ (~continueDir \/ targetConfig.exists)
               THEN /\ shouldCopy' = FALSE
                    /\ \E err \in FsErrors : caught' = Error(err)
                    /\ actPc' = "configDone"
                    /\ UNCHANGED continueDir
               ELSE /\ continueDir' = TRUE
                    /\ shouldCopy' = needsCopy(targetConfig)
                    /\ caught' = NoError
                    /\ actPc' = "decided"
    /\ UNCHANGED <<sourceConfig, targetConfig, hasBeenInstalled, activations>>
    /\ UNCHANGED <<fltVars, aggVars, buildVars, panelVars>>

\* if (shouldCopy): copyFileSync, the verifying readFileSync and the
\* message; either call may throw.
CopyConfig ==
    /\ actPc = "decided"
    /\ shouldCopy
    /\ copyCalled' = TRUE
    /\ \E outcome \in {"copied", "copyThrows", "verifyThrows"} :
          /\ targetConfig' = IF outcome = "copyThrows" THEN targetConfig
                             ELSE File(sourceConfig.text)
          /\ \E err \in FsErrors :
                caught' = IF outcome = "copied" THEN NoError ELSE Error(err)
          /\ installedNotice' = (outcome = "copied")
    /\ actPc' = "configDone"
    /\ UNCHANGED <<sourceConfig, targetAtStart, continueDir, shouldCopy,
                   hasBeenInstalled, activations>>
    /\ UNCHANGED <<fltVars, aggVars, buildVars, panelVars>>

\* else: "Valid config.yaml already exists, skipping copy"
SkipCopy ==
    /\ actPc = "decided"
    /\ ~shouldCopy
    /\ actPc' = "configDone"
    /\ UNCHANGED <<sourceConfig, targetConfig, targetAtStart, continueDir, shouldCopy,
                   copyCalled, caught, installedNotice, hasBeenInstalled, activations>>
    /\ UNCHANGED <<fltVars, aggVars, buildVars, panelVars>>

\* After the try block, whether or not an error was caught: the first
\* installation is recorded and VsCodeExtension is constructed.
ContinueActivation ==
    /\ actPc = "configDone"
    /\ hasBeenInstalled' = TRUE
    /\ activations' = activations + 1
    /\ actPc' = "active"
    /\ UNCHANGED <<sourceConfig, targetConfig, targetAtStart, continueDir, shouldCopy,
                   copyCalled, caught, installedNotice>>
    /\ UNCHANGED <<fltVars, aggVars, buildVars, panelVars>>

FltIdle ==
    /\ fltInput = <<>>
    /\ fltOutput = <<>>
    /\ fltCalled = FALSE

FltInit ==
    /\ fltInput \in FilterInputs
    /\ fltOutput = <<>>
    /\ fltCalled = FALSE

InitFilter == FltInit /\ AggInit /\ query = <<>> /\ BuildIdle /\ PanelIdle /\ ActIdle
NextFilter == CallFilterFiles
SpecFilter == InitFilter /\ [][NextFilter]_vars

InitAgg == FltIdle /\ AggInit /\ BuildIdle /\ PanelIdle /\ ActIdle
NextAgg ==
    \/ ReturnNoQuery
    \/ CallWalkDir
    \/ WalkDirReturns
    \/ WalkDirThrows
    \/ FilesLimitReached
    \/ ReadFileFails
    \/ ReadFileTruncated
    \/ SizeLimitReached
    \/ ReadFileIncluded
SpecAgg == InitAgg /\ [][NextAgg]_vars

InitBuild == FltIdle /\ AggInit /\ query = <<>> /\ BuildInit /\ PanelIdle /\ ActIdle
NextBuild ==
    \/ StartWithoutModel
    \/ StartBuild
    \/ ResolveThrows
    \/ ResolveReturns
    \/ CompileOutOfContext
    \/ CompileFails
    \/ CompileSucceeds
    \/ StreamYields
    \/ StreamCancelled
    \/ StreamCompletes
    \/ StreamThrows
    \/ CancelFromUi
    \/ FileSymbolsSettles
    \/ WrapperReturns
    \/ WrapperCatches
    \/ WrapperRejects
SpecBuild == InitBuild /\ [][NextBuild]_vars

\* The steps of the build thunk, once the panel has dispatched it.
ThunkStep == panelPc = "dispatched" /\ NextBuild

InitPanel == FltIdle /\ AggInit /\ query = <<>> /\ PanelBuildInit /\ PanelInit /\ ActIdle
NextPanel ==
    \/ ClickBuild
    \/ GetWorkspaceDirsReturns
    \/ GetWorkspaceDirsThrows
    \/ ListDirReturns
    \/ ListDirThrows
    \/ ThunkStep
    \/ DispatchResolves
    \/ DelayElapses
    \/ ErrorDialogEffect
    \/ ClickBuildAgain
SpecPanel == InitPanel /\ [][NextPanel]_vars

InitActivate == FltIdle /\ AggInit /\ query = <<>> /\ BuildIdle /\ PanelIdle /\ ActInit
NextActivate ==
    \/ CheckConfig
    \/ CopyConfig
    \/ SkipCopy
    \/ ContinueActivation
SpecActivate == InitActivate /\ [][NextActivate]_vars

(***************************************************************************)
(* Properties of getContextItems                                           *)
(***************************************************************************)
\* The items the loop has pushed: contextItems without the summary that the
\* return path puts in front.
LoopItems ==
    IF aggPc = "done" /\ contextItems # <<>> /\ contextItems[1].kind = "summary"
    THEN Tail(contextItems)
    ELSE contextItems

CountKind(items, kinds) == Cardinality({i \in 1..Len(items) : items[i].kind \in kinds})

\* Bytes of the items included in full.
RECURSIVE IncludedBytes(_)
IncludedBytes(items) ==
    IF items = <<>> THEN 0
    ELSE (IF items[1].kind = "file" THEN blobSize(items[1].body) ELSE 0)
         + IncludedBytes(Tail(items))

\* The running total when the k-th read was made.
RunningBefore(k) == IncludedBytes(SubSeq(LoopItems, 1, k - 1))

\* The k-th read's file is left out: a single size marker stands in its
\* place, it is the last item, and the loop has ended.
ReplacedBySizeMarker(k) ==
    /\ k = Len(reads)
    /\ aggPc = "done"
    /\ Len(LoopItems) = k
    /\ LoopItems[k] = SizeLimitItem
    /\ CountKind(LoopItems, {"sizeLimit"}) = 1

\* C1 as stated: the bytes of the fully included items never exceed
\* MAX_TOTAL_BYTES, and every file read whose size would push the running
\* total over the cap is left out, replaced by a single 'Size Limit Reached'
\* marker, with no later file read or included.
C1_AsStated ==
    /\ IncludedBytes(LoopItems) <= MAX_TOTAL_BYTES
    /\ \A k \in 1..Len(reads) :
          (reads[k].ok /\ RunningBefore(k) + reads[k].bytes > MAX_TOTAL_BYTES)
              => ReplacedBySizeMarker(k)

\* C1 (amended): the bytes of the fully included items never exceed
\* MAX_TOTAL_BYTES, and every file that is read, has at most
\* MAX_BYTES_PER_FILE bytes and would push the running total over the cap
\* is left out, replaced by a single 'Size Limit Reached' marker, with no
\* later file read or included.  (A file over the per-file cap is truncated
\* and the loop goes on, whatever the running total; a file reached after
\* MAX_FILES files were processed is not read at all.)
C1_TotalCap ==
    /\ IncludedBytes(LoopItems) <= MAX_TOTAL_BYTES
    /\ totalBytes = IncludedBytes(LoopItems)
    /\ \A k \in 1..Len(reads) :
          (/\ reads[k].ok
           /\ reads[k].bytes <= MAX_BYTES_PER_FILE
           /\ RunningBefore(k) + reads[k].bytes > MAX_TOTAL_BYTES)
              => ReplacedBySizeMarker(k)

\* A file was included in full and the next one was replaced by the marker.
C1_Witness ==
    /\ aggPc = "done"
    /\ Len(reads) >= 2
    /\ LoopItems[Len(reads) - 1].kind = "file"
    /\ reads[Len(reads)].ok
    /\ reads[Len(reads)].bytes <= MAX_BYTES_PER_FILE
    /\ RunningBefore(Len(reads)) + reads[Len(reads)].bytes > MAX_TOTAL_BYTES
    /\ aggResult[Len(aggResult)] = SizeLimitItem

\* C2 as stated: whenever the input list is longer than MAX_FILES the output
\* holds exactly one limit marker (of either kind) and at most MAX_FILES
\* content items, and processedFiles never exceeds MAX_FILES.
C2_AsStated ==
    /\ processedFiles <= MAX_FILES
    /\ (aggPc = "done" /\ Len(filteredFiles) > MAX_FILES)
          => /\ CountKind(aggResult, {"filesLimit", "sizeLimit"}) = 1
             /\ CountKind(aggResult, {"file", "truncated"}) <= MAX_FILES

\* C2 (amended): processedFiles never exceeds MAX_FILES and equals the number
\* of content items (full or truncated); the output holds at most one 'Files
\* Limit Reached' marker, and it holds one exactly when MAX_FILES files were
\* processed and a further file of the list was reached (a failed read is
\* not counted and the size limit ends the loop, so a list longer than
\* MAX_FILES need not produce the marker).
C2_FilesCap ==
    /\ processedFiles <= MAX_FILES
    /\ CountKind(LoopItems, {"file", "truncated"}) = processedFiles
    /\ CountKind(LoopItems, {"filesLimit"}) <= 1
    /\ (aggPc = "done" /\ walkOutcome = "returned" /\ filteredFiles # <<>>)
          => /\ CountKind(aggResult, {"file", "truncated"}) <= MAX_FILES
             /\ (CountKind(aggResult, {"filesLimit"}) = 1
                   <=> (processedFiles = MAX_FILES /\ Len(reads) < Len(filteredFiles)))
             /\ (CountKind(aggResult, {"filesLimit"}) = 1
                   => Len(filteredFiles) > MAX_FILES)

\* A list longer than MAX_FILES ended with the files marker.
C2_Witness ==
    /\ aggPc = "done"
    /\ Len(filteredFiles) > MAX_FILES
    /\ aggResult[Len(aggResult)] = FilesLimitItem
    /\ CountKind(aggResult, {"file", "truncated"}) = MAX_FILES

\* C3 as stated: the item of a file over the per-file cap has a content of
\* exactly MAX_BYTES_PER_FILE plus the truncation notice, in characters and
\* in bytes alike.
C3_AsStated ==
    \A i \in 1..Len(contextItems) :
        contextItems[i].kind = "truncated"
            => /\ contentLength(contextItems[i]) = MAX_BYTES_PER_FILE + NoticeLength
               /\ contentBytes(contextItems[i]) <= MAX_BYTES_PER_FILE + NoticeLength

\* C4: when the walk returns and no file is eligible (none returned, or all
\* rejected by filterFiles), getContextItems resolves with exactly one item,
\* the 'No Files Found' item, and does not reject.
C4_NoFiles ==
    (walkOutcome = "returned" /\ filteredFiles = <<>>)
        => /\ aggPc = "done"
           /\ ~aggThrown
           /\ Len(aggResult) = 1
           /\ aggResult[1].name = <<"No Files Found">>

\* The walk returned files and filterFiles rejected them all.
C4_Witness ==
    /\ aggPc = "done"
    /\ walkOutcome = "returned"
    /\ fileUris # <<>>
    /\ filteredFiles = <<>>
    /\ aggResult = <<NoFilesItem>>

\* A step in which readFile rejected.
ReadFailedStep ==
    /\ Len(reads') = Len(reads) + 1
    /\ ~reads'[Len(reads')].ok

\* C5: a step in which readFile rejects appends exactly one error item for
\* that file carrying the message, leaves totalBytes and processedFiles as
\* they were, does not reject, and goes on to the next file of the list
\* (or to the return after the last file).
C5_ReadFailureContinues ==
    [][ReadFailedStep =>
         LET r == reads'[Len(reads')]
         IN  /\ r.uri = filteredFiles[idx]
             /\ LoopItems' = Append(contextItems, ErrorItem(r.uri, r.msg))
             /\ totalBytes' = totalBytes
             /\ processedFiles' = processedFiles
             /\ idx' = idx + 1
             /\ ~aggThrown'
             /\ aggPc' = (IF idx < Len(filteredFiles) THEN "loop" ELSE "done")]_vars

\* A failed read was followed by a file included in full.
C5_Witness ==
    \E k \in 1..Len(reads) :
        /\ k < Len(reads)
        /\ ~reads[k].ok
        /\ LoopItems[k].kind = "error"
        /\ LoopItems[k + 1].kind = "file"

\* C6: getContextItems never rejects; a failed read is an error item in the
\* result, and a failure of the walk gives a result of exactly one item, the
\* 'Error' item carrying the message.
C6_NeverThrows ==
    /\ ~aggThrown
    /\ \A k \in 1..Len(reads) :
          ~reads[k].ok => /\ LoopItems[k].kind = "error"
                          /\ LoopItems[k].msg = reads[k].msg
    /\ walkOutcome = "threw"
          => /\ aggPc = "done"
             /\ Len(aggResult) = 1
             /\ aggResult[1].name = <<"Error">>
             /\ aggResult[1].msg \in WalkErrors

\* The walk failed and the call has returned.
C6_Witness ==
    /\ aggPc = "done"
    /\ walkOutcome = "threw"
    /\ aggResult[1].kind = "topError"

(***************************************************************************)
(* Properties of filterFiles                                               *)
(***************************************************************************)
\* Some segment of the path, delimited by '/', is in the directory denylist.
SegmentDenied(uri) ==
    \E a, b \in 1..Len(uri) :
        /\ a <= b
        /\ (a = 1 \/ uri[a - 1] = "/")
        /\ (b = Len(uri) \/ uri[b + 1] = "/")
        /\ SubSeq(uri, a, b) \in IGNORE_DIRS

\* The part of the path after its last '/'.
FileNameOf(uri) ==
    LET slashes == {i \in 1..Len(uri) : uri[i] = "/"}
        k == IF slashes = {} THEN 0 ELSE SetMax(slashes)
    IN  SubSeq(uri, k + 1, Len(uri))

\* The name ends, whatever the case of its letters, in a denied extension.
ExtensionDenied(name) ==
    \E e \in BINARY_EXTENSIONS :
        /\ Len(e) <= Len(name)
        /\ toLowerCase(SubSeq(name, Len(name) - Len(e) + 1, Len(name))) = e

HiddenRuleHolds(name) ==
    (name # <<>> /\ name[1] = ".")
        => (endsWith(name, <<".", "m", "d">>) \/ endsWith(name, <<".", "t", "x", "t">>))

Eligible(uri) ==
    /\ ~SegmentDenied(uri)
    /\ ~ExtensionDenied(FileNameOf(uri))
    /\ HiddenRuleHolds(FileNameOf(uri))

\* C7: filterFiles returns exactly the paths for which the three rules hold
\* (no denied segment, no denied extension whatever its case, a dot-file
\* ends in .md or .txt), each decided on its own, in their input order.
C7_FilterRules == fltCalled => fltOutput = SelectSeq(fltInput, Eligible)

\* An upper-case binary extension was rejected and a dot-file ending in .md
\* was kept.
C7_Witness ==
    /\ fltCalled
    /\ Len(fltInput) = 2
    /\ FileNameOf(fltInput[1]) = <<"a", ".", "P", "N", "G">>
    /\ fltOutput = <<fltInput[2]>>
    /\ startsWith(FileNameOf(fltInput[2]), <<".">>)

(***************************************************************************)
(* Properties of streamBuildKvCacheThunk                                   *)
(***************************************************************************)
\* C8: whatever the session history held when the thunk was dispatched, the
\* history handed to constructMessages is exactly one user turn, made of the
\* resolved content and its context items, so that no earlier turn is in the
\* messages sent.
C8_MinimalHistory ==
    messages # <<>>
        => /\ Len(cmHistory) = 1
           /\ cmHistory[1] = [role |-> "user", content |-> content,
                              contextItems |-> selectedContextItems]
           /\ \A i \in 1..Len(messages), j \in 1..Len(historyAtStart) :
                 messages[i].content # historyAtStart[j].content

\* The messages were constructed in a session that already held two turns.
C8_Witness ==
    /\ messages # <<>>
    /\ Len(historyAtStart) >= 2
    /\ Len(history) = Len(historyAtStart) + 2
    /\ Len(cmHistory) = 1

\* C9: once the compilation response has status error and its message
\* contains 'Not enough context', the inline error message is
\* 'out-of-context', the callback has returned without throwing, the stream
\* was never opened and no prompt/completion pair was logged.
C9_OutOfContext ==
    (precompiledRes.status = "error" /\ includes(precompiledRes.error, NotEnoughContext))
        => /\ inlineErrorMessage = "out-of-context"
           /\ buildPc \in {"returned", "done"}
           /\ ~thrown.is
           /\ ~genArgs.called
           /\ streamed = <<>>
           /\ promptLog = <<>>

\* The invocation ended after a response whose message carries the signal
\* followed by more text.
C9_Witness ==
    /\ buildPc = "done"
    /\ precompiledRes.status = "error"
    /\ Len(precompiledRes.error) > Len(NotEnoughContext)
    /\ startsWith(precompiledRes.error, NotEnoughContext)
    /\ inlineErrorMessage = "out-of-context"

\* C10 as stated: when the callback threw (no chat model, a compilation
\* error other than not-enough-context, a failure of the generator), the
\* dispatch of the build thunk resolves with a rejected action carrying the
\* error's message.
C10_AsStated ==
    (buildPc = "done" /\ thrown.is)
        => /\ thunkResult.type = "rejected"
           /\ thunkResult.error = thrown.message

Range(f) == {f[i] : i \in DOMAIN f}

Occurrences(seq, x) == Cardinality({i \in DOMAIN seq : seq[i] = x})

\* The callback of the dispatcher has ended, by returning or by throwing.
CallbackEnded == buildPc \in {"returned", "threw", "done"}

FlagClearedInLoop == buildPc = "streaming" /\ ~isStreaming

\* C12 as stated: once the flag is cleared in the stream loop, no further
\* UI-state update is made (no unit relayed, no pair logged), no further
\* unit is taken from the response sequence, and no error is thrown.
C12_AsStated ==
    [][FlagClearedInLoop
          => /\ streamed' = streamed
             /\ promptLog' = promptLog
             /\ yielded' = yielded
             /\ ~thrown'.is]_vars

\* C12, amended: once the flag is cleared in the stream loop, no further
\* unit is relayed with streamUpdate and no further gen.next() is called;
\* the step already awaited still settles, and when it brings a unit that
\* unit is dropped, abortStream and setInactive are dispatched, nothing is
\* logged and the callback returns without an error.
C12_Cancellation ==
    [][FlagClearedInLoop
          => /\ streamed' = streamed
             /\ Occurrences(trace', "streamUpdate") = Occurrences(trace, "streamUpdate")
             /\ Occurrences(trace', "gen.next") = Occurrences(trace, "gen.next")
             /\ Len(yielded') > Len(yielded)
                   => /\ buildPc' = "returned"
                      /\ ~thrown'.is
                      /\ streamAborted'
                      /\ promptLog' = promptLog
                      /\ ~isStreaming']_vars

\* The flag was cleared after a unit had been relayed; the next unit was
\* dropped and the callback returned.
C12_Witness ==
    /\ buildPc = "returned"
    /\ streamAborted
    /\ streamed # <<>>
    /\ Len(yielded) = Len(streamed) + 1
    /\ promptLog = <<>>
    /\ ~thrown.is

IsPrefix(s, t) == Len(s) <= Len(t) /\ s = SubSeq(t, 1, Len(s))

\* C13: at every point of every run the units dispatched with streamUpdate
\* are a prefix of the units the response generator yielded, in the same
\* order, none twice and none skipped in the middle; only the last unit
\* yielded may be missing, when it was dropped by the cancellation check.
C13_ArrivalOrder ==
    /\ IsPrefix(streamed, yielded)
    /\ Len(yielded) - Len(streamed) <= 1
    /\ Occurrences(trace, "streamUpdate") = Len(streamed)

\* Two different units were yielded and both were relayed, in that order.
C13_Witness ==
    /\ Len(streamed) >= 2
    /\ streamed[1] # streamed[2]
    /\ streamed = yielded

\* C14: a prompt/completion pair is appended to the log at most once per
\* invocation, and exactly when the response sequence signalled completion
\* with a final record, never when the loop was left through the
\* cancellation check; a failure of the devdata post that follows is
\* swallowed: setInactive is still dispatched and no error is thrown.
C14_PromptLog ==
    /\ Len(promptLog) <= 1
    /\ Occurrences(trace, "addPromptCompletionPair") = Len(promptLog)
    /\ promptLog # <<>> <=> (next.done /\ next.final.defined)
    /\ promptLog # <<>> => promptLog[1] = next.final
    /\ "abortStream" \in Range(trace) => promptLog = <<>>
    /\ postOutcome # "none" <=> promptLog # <<>>
    /\ postOutcome = "threw"
          => /\ CallbackEnded
             /\ ~thrown.is
             /\ trace[Len(trace)] = "setInactive"
             /\ ~isStreaming

\* The pair was logged, the devdata post threw, and the invocation ended.
C14_Witness ==
    /\ buildPc = "done"
    /\ Len(promptLog) = 1
    /\ postOutcome = "threw"
    /\ ~thrown.is

Position(seq, x) ==
    IF x \in Range(seq) THEN CHOOSE i \in DOMAIN seq : seq[i] = x /\ \A j \in 1..(i - 1) : seq[j] # x
    ELSE 0

\* C18: the stream is opened only after a compilation response of status ok
\* was received and after didPrune and contextPercentage of that response
\* were recorded, and it is opened with the compiled messages of that
\* response and the precompiled flag; after a response of status error no
\* streaming call is made.
C18_StreamAfterCompile ==
    /\ genArgs.called <=> "llmStreamChat" \in Range(trace)
    /\ genArgs.called
          => /\ precompiledRes.status = "ok"
             /\ genArgs.messages = precompiledRes.compiledChatMessages
             /\ genArgs.precompiled
             /\ isPruned = precompiledRes.didPrune
             /\ contextPercentage = precompiledRes.contextPercentage
             /\ 0 < Position(trace, "llm/compileChat")
             /\ Position(trace, "llm/compileChat") < Position(trace, "setIsPruned")
             /\ Position(trace, "setIsPruned") < Position(trace, "llmStreamChat")
             /\ Position(trace, "setContextPercentage") < Position(trace, "llmStreamChat")
             /\ Position(trace, "llmStreamChat") < Position(trace, "gen.next")
    /\ precompiledRes.status # "ok"
          => /\ ~genArgs.called
             /\ "gen.next" \notin Range(trace)
             /\ yielded = <<>>

\* The stream was opened after a response that pruned the context items, so
\* the compiled messages differ from the messages sent for compilation.
C18_Witness ==
    /\ genArgs.called
    /\ precompiledRes.didPrune
    /\ precompiledRes.contextPercentage = 1
    /\ genArgs.messages # messages
    /\ yielded # <<>>

\* C19: once the compilation request has been sent, the two history entries
\* of the build, the user turn at index n and the response at index n + 1
\* with n the length of the history when the invocation started, are hidden
\* from the chat, and they stay hidden in every later state, whichever way
\* the invocation ends; the entries that were there before are untouched.
C19_HiddenEntries ==
    "llm/compileChat" \in Range(trace)
        => /\ inputIndex = Len(historyAtStart)
           /\ Len(history) = inputIndex + 2
           /\ history[inputIndex + 1].hidden
           /\ history[inputIndex + 1].role = "user"
           /\ history[inputIndex + 2].hidden
           /\ history[inputIndex + 2].role = "assistant"
           /\ SubSeq(history, 1, inputIndex) = historyAtStart

\* The invocation failed after the compilation request, from a history that
\* was not empty, and the wrapper is done.
C19_Witness ==
    /\ buildPc = "done"
    /\ thrown.is
    /\ "llm/compileChat" \in Range(trace)
    /\ Len(historyAtStart) >= 1
    /\ history[inputIndex + 2].hidden

Markers == {"filesLimit", "sizeLimit"}

PerFileKinds == {"file", "truncated", "error"}

\* The number of per-file items of a result: all but the summary and the
\* terminal marker.
PerFileCount(r) ==
    Len(r) - 1 - (IF r[Len(r)].kind \in Markers THEN 1 ELSE 0)

\* C20: when the eligible-file list is not empty and there is no top-level
\* failure, the result is the summary item, then one item per file of the
\* list in the order of the list up to where the loop stopped, then at most
\* one terminal marker, Files Limit Reached or Size Limit Reached, which is
\* the last item and stands for the first file that got no item.
C20_ResultOrder ==
    (aggPc = "done" /\ walkOutcome = "returned" /\ filteredFiles # <<>>)
        => /\ ~aggThrown
           /\ Len(aggResult) >= 2
           /\ aggResult[1].kind = "summary"
           /\ CountKind(aggResult, {"summary"}) = 1
           /\ CountKind(aggResult, Markers) <= 1
           /\ PerFileCount(aggResult) <= Len(filteredFiles)
           /\ \A i \in 1..PerFileCount(aggResult) :
                 /\ aggResult[i + 1].kind \in PerFileKinds
                 /\ aggResult[i + 1].uri = filteredFiles[i]
           /\ IF aggResult[Len(aggResult)].kind \in Markers
              THEN PerFileCount(aggResult) < Len(filteredFiles)
              ELSE PerFileCount(aggResult) = Len(filteredFiles)

\* The example of the claim at the model's scale: two files that each fit
\* the per-file cap and together exceed the total cap give the summary, the
\* first file's item and the size marker.
C20_Witness ==
    /\ aggPc = "done"
    /\ Len(filteredFiles) = 2
    /\ Len(aggResult) = 3
    /\ aggResult[1].kind = "summary"
    /\ aggResult[2].kind = "file"
    /\ aggResult[2].uri = filteredFiles[1]
    /\ aggResult[3].kind = "sizeLimit"

(***************************************************************************)
(* Properties of the settings panel                                        *)
(***************************************************************************)
\* The build started from the panel has failed: the handler ended before it
\* dispatched the thunk (no workspace directory, no subdirectory, a listing
\* failure), or the thunk's callback threw, or the compilation response had
\* status error (not-enough-context included).
BuildFailed ==
    \/ panelPc = "done" /\ buildPc = "idle"
    \/ thrown.is
    \/ precompiledRes.status = "error"

\* Every step of the build succeeded and no error arose during it.
BuildSucceeded ==
    /\ buildPc = "done"
    /\ ~thrown.is
    /\ precompiledRes.status = "ok"
    /\ next.done
    /\ ~streamAborted

\* C16 as stated: a failed build never sets the status to completed, and
\* when its handler has ended the panel is in the failed status with a
\* message.
C16_AsStated ==
    /\ BuildFailed => status # "completed"
    /\ (BuildFailed /\ panelPc = "done")
          => /\ status = "failed"
             /\ statusMessage.text # ""

\* C17 as stated: when the handler of a build in which every step succeeded
\* has ended, the status is completed with progress 100 and the summary
\* message, and both building flags are false, whatever the error-dialog
\* flag was when the build was started.
C17_AsStated ==
    (BuildSucceeded /\ panelPc = "done")
        => /\ status = "completed"
           /\ progress = 100
           /\ statusMessage = Message("Successfully completed! KvCache built for ", folderName)
           /\ ~isBuilding
           /\ ~sectionIsBuilding

(***************************************************************************)
(* C21: the folder handleEnableClick builds for                            *)
(***************************************************************************)
\* The names of the listed entries that are directories and start with
\* neither "." nor "__".
CandidateDirs ==
    { dirItems[i].name : i \in { j \in DOMAIN dirItems :
          /\ dirItems[j].type = 2
          /\ dirItems[j].name[1] # "."
          /\ ~(Len(dirItems[j].name) >= 2 /\ dirItems[j].name[1] = "_"
                                          /\ dirItems[j].name[2] = "_") } }

\* a comes before b in the alphabet: letter by letter, whatever the case.
AlphabeticallyBefore(a, b) == precedes(toLowerCase(a), toLowerCase(b))

\* The build thunk has been dispatched by handleEnableClick.
ThunkDispatched == panelPc \in {"dispatched", "delay"} \/ buildPc # "idle"

\* C21 (as stated): the build is made for the alphabetically first directory
\* of the first workspace root whose name starts with neither "." nor "__";
\* without a workspace root or such a directory the build ends 'failed' and
\* neither the build thunk nor a request to the inference endpoint is issued.
C21_AsStated ==
    /\ ThunkDispatched =>
          /\ folderName \in CandidateDirs
          /\ \A other \in CandidateDirs : ~AlphabeticallyBefore(other, folderName)
    /\ (panelPc = "done" /\ (workspaceRoot = <<>> \/ CandidateDirs = {})) =>
          /\ status = "failed"
          /\ buildPc = "idle"
          /\ trace = <<>>

(***************************************************************************)
(* C23: one build invocation at a time                                     *)
(***************************************************************************)
\* The first handleEnableClick has started and has not returned.
FirstRunning == panelPc \in {"getWorkspaceDirs", "listDir", "dispatched", "delay"}

\* A second handleEnableClick has started and has not returned.
SecondRunning == secondPc = "getWorkspaceDirs"

HasMarker(file) ==
    \E i \in DOMAIN file.text : file.text[i].words \in {"Local Assistant", "Local Agent"}

\* An existing file of at least 100 characters that contains a marker.
ValidTarget(file) == file.exists /\ textLength(file.text) >= 100 /\ HasMarker(file)

\* The bundled file exists and the target was missing, too short or without
\* marker when the activation began.
CopyDue == sourceConfig.exists /\ ~ValidTarget(targetAtStart)

ConfigBlockEnded == actPc \in {"configDone", "active"}

FullItemsCarryTheirRead ==
    \A k \in 1..Len(LoopItems) :
        LoopItems[k].kind = "file" =>
            /\ k <= Len(reads)
            /\ reads[k].ok
            /\ blobSize(LoopItems[k].body) = reads[k].bytes

\* C24: at every point of the loop processedFiles is the number of items
\* included in full or truncated and totalBytes is the sum of the sizes read
\* for the items included in full: a truncated file adds one to the count
\* and nothing to the bytes, a failed read adds to neither, a file included
\* in full adds one and its size; so the summary's file count is the number
\* of full plus truncated items and its total (shown in KB) is that of the
\* bytes of the fully included items only.
C24_Counters ==
    /\ processedFiles = CountKind(LoopItems, {"file", "truncated"})
    /\ totalBytes = IncludedBytes(LoopItems)
    /\ FullItemsCarryTheirRead
    /\ (aggPc = "done" /\ aggResult # <<>> /\ aggResult[1].kind = "summary") =>
          /\ aggResult[1].files = CountKind(Tail(aggResult), {"file", "truncated"})
          /\ aggResult[1].kb = MathRoundDiv(IncludedBytes(Tail(aggResult)), KB)

\* A run that has returned a summary over a failed read, a truncated file
\* and a file included in full.
C24_Witness ==
    /\ aggPc = "done"
    /\ aggResult # <<>>
    /\ aggResult[1].kind = "summary"
    /\ CountKind(Tail(aggResult), {"error"}) >= 1
    /\ CountKind(Tail(aggResult), {"truncated"}) >= 1
    /\ CountKind(Tail(aggResult), {"file"}) >= 1
    /\ aggResult[1].files = 2
    /\ totalBytes > 0

====
